---------------------------- MODULE Spec2Model ----------------------------
(***************************************************************************)
(* A model of the luppa passport pipeline: MRZ line location and decoding  *)
(* (processing/enhanced_ocr.rs), MRZ/visual reconciliation                 *)
(* (processing/field_correction.rs), the confidence validators             *)
(* (ml/simple_validator.rs, ml/validation.rs), MRZ validation              *)
(* (validation/mrz.rs) and the orchestration of the checks                 *)
(* (passport_validator.rs).                                                *)
(*                                                                         *)
(* A Rust String is a sequence of one-character strings.  All characters   *)
(* of the model are ASCII except "é", which takes two bytes, so that       *)
(* str::len (bytes) and chars().count() differ where the code mixes them.  *)
(***************************************************************************)
EXTENDS Integers, Sequences, FiniteSets, TLC

VARIABLES pc, text, mrz, visual, env, corrected, recorrected, outcome

vars == <<pc, text, mrz, visual, env, corrected, recorrected, outcome>>

\* The value of a variable a specification does not use.
Unused == "unused"

--------------------------------------------------------------------------
(* Characters and strings *)

Digit == {"0", "1", "2", "3", "4", "5", "6", "7", "8", "9"}

UpperSeq ==
    <<"A", "B", "C", "D", "E", "F", "G", "H", "I", "J", "K", "L", "M",
      "N", "O", "P", "Q", "R", "S", "T", "U", "V", "W", "X", "Y", "Z">>

LowerSeq ==
    <<"a", "b", "c", "d", "e", "f", "g", "h", "i", "j", "k", "l", "m",
      "n", "o", "p", "q", "r", "s", "t", "u", "v", "w", "x", "y", "z">>

DigitSeq == <<"0", "1", "2", "3", "4", "5", "6", "7", "8", "9">>

Upper == {UpperSeq[i] : i \in 1..26}

Lower == {LowerSeq[i] : i \in 1..26}

\* The position (1-based) of c in the sequence s of distinct characters.
IndexIn(c, s) == CHOOSE i \in 1..Len(s) : s[i] = c

is_ascii_digit(c) == c \in Digit

is_ascii_alphanumeric(c) == c \in Digit \cup Upper \cup Lower

\* char::is_alphanumeric is Unicode-aware: the accented letter counts.
is_alphanumeric(c) == is_ascii_alphanumeric(c) \/ c \in {"é", "É"}

is_whitespace(c) == c \in {" ", "\t"}

\* UTF-8 width of a character.
ByteWidth(c) == IF c \in {"é", "É"} THEN 2 ELSE 1

RECURSIVE ByteLen(_)
\* str::len: the length in bytes.
ByteLen(s) == IF s = <<>> THEN 0 ELSE ByteWidth(Head(s)) + ByteLen(Tail(s))

UpperChar(c) ==
    IF c \in Lower THEN UpperSeq[IndexIn(c, LowerSeq)]
    ELSE IF c = "é" THEN "É" ELSE c

to_uppercase(s) == [i \in 1..Len(s) |-> UpperChar(s[i])]

RECURSIVE Filter(_, _)
\* The characters of s that belong to the set keep, in order.
Filter(s, keep) ==
    IF s = <<>> THEN <<>>
    ELSE IF Head(s) \in keep THEN <<Head(s)>> \o Filter(Tail(s), keep)
    ELSE Filter(Tail(s), keep)

AsciiAlnum == Digit \cup Upper \cup Lower

\* str::contains with a string pattern: the empty needle is always contained.
Contains(hay, needle) ==
    \E i \in 0..(Len(hay) - Len(needle)) :
        SubSeq(hay, i + 1, i + Len(needle)) = needle

starts_with(s, p) == Len(s) >= Len(p) /\ SubSeq(s, 1, Len(p)) = p

\* Rust's s[a..b] on an ASCII string (0-based, b exclusive).
Slice(s, a, b) == SubSeq(s, a + 1, b)

RECURSIVE TrimStart(_)
TrimStart(s) ==
    IF s # <<>> /\ is_whitespace(Head(s)) THEN TrimStart(Tail(s)) ELSE s

RECURSIVE TrimEnd(_)
TrimEnd(s) ==
    IF s # <<>> /\ is_whitespace(s[Len(s)])
    THEN TrimEnd(SubSeq(s, 1, Len(s) - 1)) ELSE s

\* str::trim
Trim(s) == TrimEnd(TrimStart(s))

RECURSIVE SplitOn(_, _)
\* str::split on a set of separator characters: the list of the parts.
SplitOn(s, seps) ==
    IF \A i \in 1..Len(s) : s[i] \notin seps THEN <<s>>
    ELSE LET k == CHOOSE i \in 1..Len(s) :
                      s[i] \in seps /\ \A j \in 1..(i - 1) : s[j] \notin seps
         IN <<SubSeq(s, 1, k - 1)>> \o SplitOn(SubSeq(s, k + 1, Len(s)), seps)

RECURSIVE DigitsValue(_)
DigitsValue(s) ==
    IF s = <<>> THEN 0
    ELSE 10 * DigitsValue(SubSeq(s, 1, Len(s) - 1))
         + (IndexIn(s[Len(s)], DigitSeq) - 1)

\* Option<String>: None is the empty tuple, Some(s) the one-element tuple <<s>>.
None == <<>>

Some(s) == <<s>>

is_some(o) == o # <<>>

is_none(o) == o = <<>>

\* The string inside Some(s).
Unwrap(o) == o[1]

\* str::parse::<u32>() / parse::<i32>() of a part that holds no '-': an
\* optional '+', then one or more digits.  Parts of more than 9 digits (which
\* may overflow) are outside the inputs of the model.  A failed parse is -1.
ParseNum(s) ==
    LET body == IF s # <<>> /\ Head(s) = "+" THEN Tail(s) ELSE s
    IN IF body # <<>> /\ Len(body) <= 9 /\ \A i \in 1..Len(body) : body[i] \in Digit
       THEN DigitsValue(body) ELSE -1

RECURSIVE Rep(_, _)
\* The character c repeated n times.
Rep(c, n) == IF n <= 0 THEN <<>> ELSE <<c>> \o Rep(c, n - 1)

RECURSIVE StrsUpTo(_, _)
\* All strings over the alphabet of length at most n.
StrsUpTo(alphabet, n) ==
    IF n = 0 THEN {<<>>}
    ELSE LET shorter == StrsUpTo(alphabet, n - 1)
         IN shorter \cup {s \o <<c>> : s \in shorter, c \in alphabet}

--------------------------------------------------------------------------
(* Reconciliation: processing/field_correction.rs *)

\* Name length under which a shorter MRZ name is taken to be truncated.
TruncLimit == 20

fields_match(field1, field2) ==
    Filter(field1, AsciiAlnum) = Filter(field2, AsciiAlnum)

fields_match_case_insensitive(field1, field2) ==
    to_uppercase(Filter(field1, AsciiAlnum)) = to_uppercase(Filter(field2, AsciiAlnum))

names_compatible(mrz_name, visual_name) ==
    IF mrz_name = <<>> \/ visual_name = <<>> THEN TRUE
    ELSE LET clean_mrz == to_uppercase(Filter(mrz_name, AsciiAlnum))
             clean_viz == to_uppercase(Filter(visual_name, AsciiAlnum))
         IN Contains(clean_mrz, clean_viz) \/ Contains(clean_viz, clean_mrz)
            \/ clean_mrz = clean_viz

IsMrzDate(d) == Len(d) = 6 /\ \A i \in 1..6 : is_ascii_digit(d[i])

\* The branch of dates_compatible for a visual date of exactly 6 digits.
SixDigitMatch(mrz_date, cv) ==
    \/ mrz_date = cv
    \/ /\ Slice(mrz_date, 4, 6) = Slice(cv, 0, 2)
       /\ Slice(mrz_date, 2, 4) = Slice(cv, 2, 4)
       /\ Slice(mrz_date, 0, 2) = Slice(cv, 4, 6)

\* The branch of dates_compatible for a visual date of exactly 8 digits.
EightDigitMatch(mrz_date, cv) ==
    LET yy == IF starts_with(cv, <<"1", "9">>) \/ starts_with(cv, <<"2", "0">>)
              THEN Slice(cv, 2, 4) ELSE Slice(cv, 6, 8)
        mm_dd_matches ==
            \/ Slice(mrz_date, 2, 4) = Slice(cv, 2, 4) /\ Slice(mrz_date, 4, 6) = Slice(cv, 0, 2)
            \/ Slice(mrz_date, 2, 4) = Slice(cv, 4, 6) /\ Slice(mrz_date, 4, 6) = Slice(cv, 6, 8)
    IN Slice(mrz_date, 0, 2) = yy /\ mm_dd_matches

\* The closing comparison of dates_compatible, on the digits of both dates.
DigitsFallback(mrz_date, visual_date) ==
    LET clean_mrz == Filter(mrz_date, Digit)
        clean_viz == Filter(visual_date, Digit)
    IN clean_mrz = clean_viz \/ Contains(clean_mrz, clean_viz)
       \/ Contains(clean_viz, clean_mrz)

dates_compatible(mrz_date, visual_date) ==
    IF mrz_date = <<>> \/ visual_date = <<>> THEN TRUE
    ELSE IF ~IsMrzDate(mrz_date) THEN DigitsFallback(mrz_date, visual_date)
    ELSE LET cv == Filter(visual_date, Digit)
             parts == SplitOn(visual_date, {"/", "-", "."})
             d == ParseNum(parts[1])
             m == ParseNum(parts[2])
             y == ParseNum(parts[3])
             mrz_day == DigitsValue(Slice(mrz_date, 4, 6))
             mrz_month == DigitsValue(Slice(mrz_date, 2, 4))
             yy == DigitsValue(Slice(mrz_date, 0, 2))
             mrz_year == IF yy >= 50 THEN 1900 + yy ELSE 2000 + yy
         IN IF Len(cv) = 6 THEN SixDigitMatch(mrz_date, cv)
            ELSE IF Len(cv) = 8 THEN EightDigitMatch(mrz_date, cv)
            ELSE IF Len(parts) = 3 /\ d >= 0 /\ m >= 0 /\ y >= 0
            THEN d = mrz_day /\ m = mrz_month
                 /\ (y % 100 = mrz_year % 100 \/ y = mrz_year)
            ELSE DigitsFallback(mrz_date, visual_date)

format_mrz_date(mrz_date) ==
    IF IsMrzDate(mrz_date)
    THEN LET year_prefix == IF DigitsValue(Slice(mrz_date, 0, 2)) >= 50
                            THEN <<"1", "9">> ELSE <<"2", "0">>
         IN Slice(mrz_date, 4, 6) \o <<"/">> \o Slice(mrz_date, 2, 4) \o <<"/">>
            \o year_prefix \o Slice(mrz_date, 0, 2)
    ELSE mrz_date

\* One entry of the local `corrections` map: key, value before, value after.
Entry(key, before, after) == <<key, before, after>>

Keys(corrections) == {e[1] : e \in corrections}

\* (mutant: a missing visual value is filled in, but a mismatching one is kept)
CorrectPlainKeepMismatch(st, f, m, v, match) ==
    IF v[f] = <<>> /\ m[f] # <<>>
    THEN [corrected |-> [st.corrected EXCEPT ![f] = m[f]],
          corrections |-> st.corrections \cup {Entry(f, <<>>, m[f])}]
    ELSE st

\* Lines 19-30 (document_number), 79-89 (nationality) and 116-126 (gender):
\* a mismatching or missing visual value is replaced by the MRZ value.
CorrectPlain(st, f, m, v, match) ==
    IF v[f] # <<>> /\ ~match
    THEN [corrected |-> [st.corrected EXCEPT ![f] = m[f]],
          corrections |-> st.corrections \cup {Entry(f, v[f], m[f])}]
    ELSE IF v[f] = <<>> /\ m[f] # <<>>
    THEN [corrected |-> [st.corrected EXCEPT ![f] = m[f]],
          corrections |-> st.corrections \cup {Entry(f, <<>>, m[f])}]
    ELSE st

\* The test of lines 37 and 57: the MRZ name looks truncated.
\* (mutant: the limit is applied to the visual name instead of the MRZ name)
LooksTruncatedVisualLimit(mrz_name, visual_name) ==
    ByteLen(mrz_name) < ByteLen(visual_name) /\ ByteLen(visual_name) < TruncLimit

LooksTruncated(mrz_name, visual_name) ==
    ByteLen(mrz_name) < ByteLen(visual_name) /\ ByteLen(mrz_name) < TruncLimit

\* Lines 32-52 (surname) and 54-70 (given_names).
CorrectName(st, f, m, v) ==
    IF v[f] # <<>> /\ ~names_compatible(m[f], v[f])
    THEN IF LooksTruncated(m[f], v[f])
         THEN [st EXCEPT !.corrections =
                  @ \cup {Entry(IF f = "surname" THEN "surname_discrepancy"
                                ELSE "given_names_discrepancy", v[f], m[f])}]
         ELSE [corrected |-> [st.corrected EXCEPT ![f] = m[f]],
               corrections |-> st.corrections \cup {Entry(f, v[f], m[f])}]
    ELSE IF v[f] = <<>> /\ m[f] # <<>>
    THEN [corrected |-> [st.corrected EXCEPT ![f] = m[f]],
          corrections |-> st.corrections \cup {Entry(f, <<>>, m[f])}]
    ELSE st

\* Lines 72-77: the display name follows a corrected surname or given name.
UpdateName(st) ==
    IF "surname" \in Keys(st.corrections) \/ "given_names" \in Keys(st.corrections)
    THEN LET name == Trim(Trim(st.corrected.given_names) \o <<" ">>
                          \o Trim(st.corrected.surname))
         IN [corrected |-> [st.corrected EXCEPT !.name = name],
             corrections |-> st.corrections \cup {Entry("name", <<>>, name)}]
    ELSE st

\* (mutant: a mismatching date is replaced by the raw MRZ date, as the other
\* fields are, while a missing one is still filled with the formatted date)
CorrectDateRawOnMismatch(st, f, m, v) ==
    IF v[f] # <<>> /\ ~dates_compatible(m[f], v[f])
    THEN [corrected |-> [st.corrected EXCEPT ![f] = m[f]],
          corrections |-> st.corrections \cup {Entry(f, v[f], m[f])}]
    ELSE IF v[f] = <<>> /\ m[f] # <<>>
    THEN [corrected |-> [st.corrected EXCEPT ![f] = format_mrz_date(m[f])],
          corrections |-> st.corrections \cup {Entry(f, <<>>, format_mrz_date(m[f]))}]
    ELSE st

\* (mutant: a mismatching date is replaced, but a missing visual date is left
\* empty instead of being filled from the MRZ)
CorrectDateKeepEmpty(st, f, m, v) ==
    IF v[f] # <<>> /\ ~dates_compatible(m[f], v[f])
    THEN [corrected |-> [st.corrected EXCEPT ![f] = format_mrz_date(m[f])],
          corrections |-> st.corrections \cup {Entry(f, v[f], format_mrz_date(m[f]))}]
    ELSE st

\* Lines 91-102 (date_of_birth) and 104-114 (date_of_expiry).
CorrectDate(st, f, m, v) ==
    IF v[f] # <<>> /\ ~dates_compatible(m[f], v[f])
    THEN [corrected |-> [st.corrected EXCEPT ![f] = format_mrz_date(m[f])],
          corrections |-> st.corrections \cup {Entry(f, v[f], format_mrz_date(m[f]))}]
    ELSE IF v[f] = <<>> /\ m[f] # <<>>
    THEN [corrected |-> [st.corrected EXCEPT ![f] = format_mrz_date(m[f])],
          corrections |-> st.corrections \cup {Entry(f, <<>>, format_mrz_date(m[f]))}]
    ELSE st

\* Lines 128-139: personal_number, an Option on both sides.
CorrectPersonalNumber(st, m, v) ==
    IF is_some(m.personal_number) /\ is_some(v.personal_number)
    THEN IF ~fields_match(Unwrap(m.personal_number), Unwrap(v.personal_number))
         THEN [corrected |-> [st.corrected EXCEPT !.personal_number = m.personal_number],
               corrections |-> st.corrections \cup
                   {Entry("personal_number", v.personal_number, m.personal_number)}]
         ELSE st
    ELSE IF is_none(v.personal_number) /\ is_some(m.personal_number)
    THEN [corrected |-> [st.corrected EXCEPT !.personal_number = m.personal_number],
          corrections |-> st.corrections \cup
              {Entry("personal_number", None, m.personal_number)}]
    ELSE st

\* Lines 141-146: place_of_birth is only ever filled in, never overridden.
CorrectPlaceOfBirth(st, m, v) ==
    IF is_none(v.place_of_birth) /\ is_some(m.place_of_birth)
    THEN [corrected |-> [st.corrected EXCEPT !.place_of_birth = m.place_of_birth],
          corrections |-> st.corrections \cup
              {Entry("place_of_birth", None, m.place_of_birth)}]
    ELSE st

\* The whole of correct_visual_data, with the local corrections map it logs.
CorrectionRun(m, v) ==
    LET s0 == [corrected |-> v, corrections |-> {}]
        s1 == CorrectPlain(s0, "document_number", m, v,
                           fields_match(m.document_number, v.document_number))
        s2 == CorrectName(s1, "surname", m, v)
        s3 == CorrectName(s2, "given_names", m, v)
        s4 == UpdateName(s3)
        s5 == CorrectPlain(s4, "nationality", m, v,
                           fields_match_case_insensitive(m.nationality, v.nationality))
        s6 == CorrectDate(s5, "date_of_birth", m, v)
        s7 == CorrectDate(s6, "date_of_expiry", m, v)
        s8 == CorrectPlain(s7, "gender", m, v,
                           fields_match_case_insensitive(m.gender, v.gender))
        s9 == CorrectPersonalNumber(s8, m, v)
    IN CorrectPlaceOfBirth(s9, m, v)

correct_visual_data(m, v) == CorrectionRun(m, v).corrected

--------------------------------------------------------------------------
(* Inputs of the reconciliation *)

\* Longest identifier-like input string (document number, nationality, ...).
MaxIdLen == 2

\* Longest freely enumerated name; longer names are padded from these.
MaxNameLen == 2

ShortStrs == StrsUpTo({"A", "a", "-"}, MaxIdLen)

\* MRZ names are ASCII: clean_mrz_line keeps only [A-Z0-9<] (enhanced_ocr.rs
\* 326-328) and clean_name turns '<' into spaces.
MrzNames ==
    LET short == StrsUpTo({"A", "B", " "}, MaxNameLen)
    IN short \cup {s \o Rep("C", k) : s \in StrsUpTo({"A", "B", " "}, 1),
                                      k \in {TruncLimit - 2, TruncLimit - 1, TruncLimit}}

VisualNames ==
    LET short == StrsUpTo({"A", "b", " ", "é"}, MaxNameLen)
    IN short \cup {s \o Rep("C", k) : s \in StrsUpTo({"A", "b", "é"}, 1),
                                      k \in {TruncLimit - 2, TruncLimit - 1, TruncLimit}}

DateYears == {<<"8", "0">>, <<"1", "9">>, <<"2", "0">>}

DateMonths == {<<"0", "1">>, <<"1", "2">>}

DateDays == {<<"0", "1">>, <<"1", "9">>, <<"2", "0">>}

\* The century a two-digit year is written with on the data page.
Centuries == {<<"1", "9">>, <<"2", "0">>}

\* MRZ dates: well-formed YYMMDD, and what a damaged line can leave there.
MrzDates ==
    {y \o m \o d : y \in DateYears, m \in DateMonths, d \in DateDays}
    \cup {<<>>, <<"8", "0", "0", "1">>, <<"8", "0", "<", "1", "0", "1">>,
          <<"8", "0", "0", "1", "0", "1", "1">>}

\* A calendar date written the ways a data page (or its OCR) writes it.
WrittenForms(c, y, m, d) ==
    { d \o <<"/">> \o m \o <<"/">> \o c \o y,
      m \o <<"/">> \o d \o <<"/">> \o c \o y,
      c \o y \o <<"-">> \o m \o <<"-">> \o d,
      d \o <<".">> \o m \o <<".">> \o y,
      <<d[2]>> \o <<"/">> \o <<m[2]>> \o <<"/">> \o c \o y \o <<" ">>,
      y \o m \o d,
      d \o m \o y }

VisualDates ==
    UNION {WrittenForms(c, y, m, d) :
              c \in Centuries, y \in DateYears, m \in DateMonths, d \in DateDays}
    \cup {<<>>, <<"U", "N", "K">>, <<"1", "/", "1">>, <<"0", "1", "/", "x", "/", "8", "0">>}

BaseMrz ==
    [document_number |-> <<"A", "1">>, surname |-> <<"A", "B">>,
     given_names |-> <<"B">>, nationality |-> <<"A">>,
     date_of_birth |-> <<"8", "0", "0", "1", "0", "1">>, gender |-> <<"A">>,
     date_of_expiry |-> <<"3", "0", "0", "1", "1", "5">>,
     personal_number |-> None, place_of_birth |-> None]

BaseVisual ==
    [document_number |-> <<"A", "1">>, name |-> <<"b", " ", "A", "B">>,
     surname |-> <<"A", "B">>, given_names |-> <<"b">>, nationality |-> <<"a">>,
     date_of_birth |-> <<"0", "1", "/", "0", "1", "/", "1", "9", "8", "0">>,
     gender |-> <<"A">>,
     date_of_expiry |-> <<"1", "5", "/", "0", "1", "/", "2", "0", "3", "0">>,
     personal_number |-> None, place_of_birth |-> None,
     date_of_issue |-> <<>>, authority |-> None]

StringFields == {"document_number", "nationality", "gender"}

NameFields == {"surname", "given_names"}

DateFields == {"date_of_birth", "date_of_expiry"}

OptionFields == {"personal_number", "place_of_birth"}

Options(strs) == {None} \cup {Some(s) : s \in strs}

\* What the other name field holds while one name field ranges over all names.
OtherNames == {<<<<"B">>, <<"b">>>>, <<<<"A">>, <<"b">>>>}

Other(f) == IF f = "surname" THEN "given_names" ELSE "surname"

\* The MRZ/visual pairs handed to correct_visual_data: one field (for names,
\* both name fields) ranges over its values while the others hold a base value.
ReconcileInputs ==
    {<<[BaseMrz EXCEPT ![f] = a], [BaseVisual EXCEPT ![f] = b]>> :
         f \in StringFields, a \in ShortStrs, b \in ShortStrs}
    \cup {<<[BaseMrz EXCEPT ![f] = a], [BaseVisual EXCEPT ![f] = b]>> :
         f \in OptionFields, a \in Options(ShortStrs), b \in Options(ShortStrs)}
    \cup {<<[BaseMrz EXCEPT ![f] = a], [BaseVisual EXCEPT ![f] = b]>> :
         f \in DateFields, a \in MrzDates, b \in VisualDates}
    \cup {<<[BaseMrz EXCEPT ![f] = a, ![Other(f)] = o[1]],
            [BaseVisual EXCEPT ![f] = b, ![Other(f)] = o[2]]>> :
         f \in NameFields, a \in MrzNames, b \in VisualNames, o \in OtherNames}

--------------------------------------------------------------------------
(* Specification of the reconciliation: PassportValidator hands the decoded *)
(* MRZ record and the extracted visual record to correct_visual_data        *)
(* (passport_validator.rs 53, 73); the result is reconciled once more.      *)

InitReconcile ==
    /\ pc = "input"
    /\ \E p \in ReconcileInputs : mrz = p[1] /\ visual = p[2]
    /\ text = Unused
    /\ env = Unused
    /\ corrected = Unused
    /\ recorrected = Unused
    /\ outcome = Unused

Reconcile ==
    /\ pc = "input"
    /\ corrected' = CorrectionRun(mrz, visual)
    /\ pc' = "reconciled"
    /\ UNCHANGED <<text, mrz, visual, env, recorrected, outcome>>

ReconcileAgain ==
    /\ pc = "reconciled"
    /\ recorrected' = CorrectionRun(mrz, corrected.corrected)
    /\ pc' = "done"
    /\ UNCHANGED <<text, mrz, visual, env, corrected, outcome>>

NextReconcile == Reconcile \/ ReconcileAgain

SpecReconcile == InitReconcile /\ [][NextReconcile]_vars

--------------------------------------------------------------------------
(* Claims about the reconciliation (checked under SpecReconcile) *)

\* C1: reconciliation is idempotent: reconciling the MRZ record with the
\* already reconciled visual record gives, field for field, the record that
\* the first reconciliation gave.
C1_Idempotent ==
    pc = "done" => recorrected.corrected = corrected.corrected

\* C1 witness: a first pass that changed the visual record (here a date
\* rewritten from the MRZ), followed by the second pass.
C1_Witness ==
    /\ pc = "done"
    /\ corrected.corrected # visual
    /\ corrected.corrected.date_of_birth # visual.date_of_birth
    /\ visual.date_of_birth # <<>>

\* The claim's "shorter" and "shorter than 20 characters", counted in characters.
ShorterMrzName(f) ==
    /\ visual[f] # <<>>
    /\ Len(mrz[f]) < Len(visual[f])
    /\ Len(mrz[f]) < TruncLimit

\* C4: for surname and given_names, a non-empty visual name is never
\* overwritten by an MRZ name that is shorter than it and shorter than 20
\* characters: the visual name stays, no correction of the field is recorded,
\* and an incompatibility is recorded only as a discrepancy.
C4_ShortMrzNameKept ==
    \A f \in NameFields :
        (pc # "input" /\ ShorterMrzName(f)) =>
            /\ corrected.corrected[f] = visual[f]
            /\ f \notin Keys(corrected.corrections)
            /\ ~names_compatible(mrz[f], visual[f]) =>
                   \E e \in corrected.corrections :
                       /\ e[1] = (IF f = "surname" THEN "surname_discrepancy"
                                  ELSE "given_names_discrepancy")
                       /\ e[2] = visual[f]
                       /\ e[3] = mrz[f]

\* C4 witness: an incompatible, shorter MRZ surname met a long visual surname
\* (20 characters or more) and the reconciliation has run.
C4_Witness ==
    /\ pc = "reconciled"
    /\ ShorterMrzName("surname")
    /\ mrz.surname # <<>>
    /\ ~names_compatible(mrz.surname, visual.surname)
    /\ Len(visual.surname) >= TruncLimit
    /\ "surname_discrepancy" \in Keys(corrected.corrections)

--------------------------------------------------------------------------
(* Scores.  An f32 score is modelled by the exact fraction <<n, d>>, d > 0, *)
(* in lowest terms; comparisons are exact.                                  *)

RECURSIVE GCD(_, _)
GCD(a, b) == IF b = 0 THEN a ELSE GCD(b, a % b)

Abs(x) == IF x < 0 THEN -x ELSE x

Frac(n, d) ==
    LET g == GCD(Abs(n), d)
    IN IF n = 0 THEN <<0, 1>> ELSE <<n \div g, d \div g>>

FAdd(x, y) ==
    LET l == (x[2] \div GCD(x[2], y[2])) * y[2]
    IN Frac(x[1] * (l \div x[2]) + y[1] * (l \div y[2]), l)

FNeg(x) == <<-x[1], x[2]>>

FSub(x, y) == FAdd(x, FNeg(y))

FMul(x, y) ==
    LET a == Frac(x[1], y[2])
        b == Frac(y[1], x[2])
    IN Frac(a[1] * b[1], a[2] * b[2])

FLt(x, y) == x[1] * y[2] < y[1] * x[2]

FLe(x, y) == x[1] * y[2] <= y[1] * x[2]

FMax(x, y) == IF FLt(x, y) THEN y ELSE x

FMin(x, y) == IF FLt(y, x) THEN y ELSE x

Zero == Frac(0, 1)

One == Frac(1, 1)

\* Decimal literals of the source: Tenths(3) is 0.3, Hundredths(75) is 0.75.
Tenths(n) == Frac(n, 10)

Hundredths(n) == Frac(n, 100)

\* The accumulated sum returned as it is, without the cap.
Unclamped(x) == x

\* confidence.max(0.0).min(1.0)
Clamp01(x) == FMin(FMax(x, Zero), One)

InUnit(x) == FLe(Zero, x) /\ FLe(x, One)

\* The sum of a sequence of scores.
RECURSIVE FSum(_)
FSum(xs) == IF xs = <<>> THEN Zero ELSE FAdd(Head(xs), FSum(Tail(xs)))

\* if cond { confidence += w }
When(cond, w) == IF cond THEN w ELSE Zero

--------------------------------------------------------------------------
(* The confidence validator in use: ml/simple_validator.rs (re-exported as  *)
(* MlValidator by ml/mod.rs).                                               *)

Min2(a, b) == IF a < b THEN a ELSE b

Max2(a, b) == IF a > b THEN a ELSE b

\* One row of the edit-distance matrix (lines 278-288): acc holds the cells
\* of row i filled so far, prev is row i-1, c is s1_chars[i - 1].
RECURSIVE LevRow(_, _, _, _)
LevRow(prev, c, s2, acc) ==
    IF Len(acc) = Len(s2) + 1 THEN acc
    ELSE LET j == Len(acc)
             cost == IF c = s2[j] THEN 0 ELSE 1
             cell == Min2(Min2(prev[j + 1] + 1, acc[j] + 1), prev[j] + cost)
         IN LevRow(prev, c, s2, Append(acc, cell))

RECURSIVE LevRows(_, _, _, _)
LevRows(s1, s2, i, prev) ==
    IF i > Len(s1) THEN prev
    ELSE LevRows(s1, s2, i + 1, LevRow(prev, s1[i], s2, <<i>>))

levenshtein_distance(s1, s2) ==
    IF s1 = s2 THEN 0
    ELSE IF Len(s1) = 0 THEN Len(s2)
    ELSE IF Len(s2) = 0 THEN Len(s1)
    ELSE LevRows(s1, s2, 1, [j \in 1..(Len(s2) + 1) |-> j - 1])[Len(s2) + 1]

calculate_similarity(a, b) ==
    IF a = b THEN One
    ELSE LET distance == levenshtein_distance(a, b)
             max_len == Max2(ByteLen(a), ByteLen(b))
         IN IF max_len = 0 THEN One
            ELSE Clamp01(FSub(One, Frac(distance, max_len)))

IsDateSeparator(c) == c \in {"-", "/", "."}

\* Where the regex (\d{2})[-/.]?(\d{2})[-/.]?(\d{2}) matches when tried at
\* position i: the positions of the three digit pairs, or <<>>.
DatePairsAt(s, i) ==
    LET two(k) == k + 1 <= Len(s) /\ is_ascii_digit(s[k]) /\ is_ascii_digit(s[k + 1])
        skip(k) == IF k <= Len(s) /\ IsDateSeparator(s[k]) THEN k + 1 ELSE k
        j == skip(i + 2)
        k == skip(j + 2)
    IN IF two(i) /\ two(j) /\ two(k) THEN <<i, j, k>> ELSE <<>>

RECURSIVE FirstDatePairs(_, _)
FirstDatePairs(s, i) ==
    IF i > Len(s) THEN <<>>
    ELSE IF DatePairsAt(s, i) # <<>> THEN DatePairsAt(s, i)
    ELSE FirstDatePairs(s, i + 1)

\* The second pattern (lines 320-330) matches only where the first does, so
\* it is never reached with a match.
NormalizedAt(date, m) ==
    IF m # <<>>
    THEN SubSeq(date, m[1], m[1] + 1) \o SubSeq(date, m[2], m[2] + 1)
             \o SubSeq(date, m[3], m[3] + 1)
    ELSE Filter(date, Digit)

normalize_date(date) == NormalizedAt(date, FirstDatePairs(date, 1))

Simple_calculate_date_similarity(date1, date2) ==
    calculate_similarity(normalize_date(date1), normalize_date(date2))

\* country_rules of SimpleValidator::new: the document number length required
\* for an issuing country, 0 when the country has no rule.
Simple_country_rules(country) ==
    IF country \in {<<"U", "S", "A">>, <<"G", "B", "R">>} THEN 9 ELSE 0

\* (mutant: a document number of the wrong length costs 0.1)
Simple_validate_mrz_sum_penalty_tenth(m) ==
    FSum(<<When(m.document_number # <<>>, Tenths(2)),
           When(m.surname # <<>> /\ m.given_names # <<>>, Tenths(2)),
           When(m.nationality # <<>>, Tenths(1)),
           When(m.date_of_birth # <<>>, Tenths(2)),
           When(m.gender # <<>>, Tenths(1)),
           When(m.date_of_expiry # <<>>, Tenths(2)),
           IF Simple_country_rules(m.issuing_country) = 0 THEN Zero
           ELSE IF ByteLen(m.document_number) = Simple_country_rules(m.issuing_country)
                THEN Tenths(1) ELSE FNeg(Tenths(1))>>)

Simple_validate_mrz_sum(m) ==
    FSum(<<When(m.document_number # <<>>, Tenths(2)),
           When(m.surname # <<>> /\ m.given_names # <<>>, Tenths(2)),
           When(m.nationality # <<>>, Tenths(1)),
           When(m.date_of_birth # <<>>, Tenths(2)),
           When(m.gender # <<>>, Tenths(1)),
           When(m.date_of_expiry # <<>>, Tenths(2)),
           IF Simple_country_rules(m.issuing_country) = 0 THEN Zero
           ELSE IF ByteLen(m.document_number) = Simple_country_rules(m.issuing_country)
                THEN Tenths(1) ELSE FNeg(Tenths(2))>>)

Simple_validate_mrz(m) == Clamp01(Simple_validate_mrz_sum(m))

FilledOption(o) == is_some(o) /\ Unwrap(o) # <<>>

Simple_validate_visual_data(v) ==
    LET confidence ==
            FSum(<<When(v.document_number # <<>>, One),
                   When(v.surname # <<>>, One),
                   When(v.date_of_birth # <<>>, One),
                   When(v.gender # <<>>, One),
                   When(v.date_of_expiry # <<>>, One),
                   When(v.date_of_issue # <<>>, One),
                   When(FilledOption(v.place_of_birth), One),
                   When(FilledOption(v.authority), One)>>)
    IN Clamp01(FMul(confidence, Frac(1, 8)))

\* The pairs compared by validate_consistency: <<compared, similarity>>.
Simple_consistency_checks(m, v) ==
    <<  <<m.document_number # <<>> /\ v.document_number # <<>>,
          calculate_similarity(m.document_number, v.document_number)>>,
        <<m.surname # <<>> /\ v.surname # <<>>,
          calculate_similarity(to_uppercase(m.surname), to_uppercase(v.surname))>>,
        <<m.date_of_birth # <<>> /\ v.date_of_birth # <<>>,
          Simple_calculate_date_similarity(m.date_of_birth, v.date_of_birth)>>,
        <<m.gender # <<>> /\ v.gender # <<>>,
          IF m.gender = v.gender THEN One ELSE Zero>>,
        <<m.date_of_expiry # <<>> /\ v.date_of_expiry # <<>>,
          Simple_calculate_date_similarity(m.date_of_expiry, v.date_of_expiry)>> >>

\* if checks > 0 { confidence / checks } else { default }
AverageOr(checks, default) ==
    LET done == {i \in DOMAIN checks : checks[i][1]}
        confidence == FSum([i \in DOMAIN checks |-> When(checks[i][1], checks[i][2])])
    IN IF Cardinality(done) > 0 THEN FMul(confidence, Frac(1, Cardinality(done)))
       ELSE default

Simple_validate_consistency(m, v) ==
    AverageOr(Simple_consistency_checks(m, v), Tenths(3))

Simple_detect_fraud(m, v) ==
    LET fraud_likelihood ==
            FSum(<<When(FLt(Simple_validate_consistency(m, v), Tenths(6)), Tenths(4)),
                   When(Contains(v.date_of_birth, <<"0", "0", "/", "0", "0">>)
                        \/ Contains(v.date_of_birth, <<"9", "9", "/", "9", "9">>), Tenths(4)),
                   When(Contains(v.date_of_expiry, <<"2", "0", "1">>)
                        \/ Contains(v.date_of_expiry, <<"2", "0", "0">>), Tenths(2))>>)
    IN FSub(One, Clamp01(fraud_likelihood))

\* SimpleValidator::validate: every sub-score is computed, then is_valid.
\* Lines 47-63: is_valid from the four thresholds, and the confidence record.
Simple_result(mrz_confidence, visual_confidence, consistency_confidence, security_feature_confidence, fraud_detection_confidence) ==
    [is_valid |-> /\ FLt(Tenths(7), mrz_confidence)
                  /\ FLt(Tenths(6), visual_confidence)
                  /\ FLt(Tenths(7), consistency_confidence)
                  /\ FLt(Tenths(8), fraud_detection_confidence),
     path |-> "full",
     confidence |->
         [mrz_confidence |-> mrz_confidence,
          visual_confidence |-> visual_confidence,
          consistency_confidence |-> consistency_confidence,
          security_feature_confidence |-> security_feature_confidence,
          fraud_detection_confidence |-> fraud_detection_confidence]]

Simple_validate(m, v) ==
    Simple_result(Simple_validate_mrz(m), Simple_validate_visual_data(v),
                  Simple_validate_consistency(m, v), Hundredths(85),
                  Simple_detect_fraud(m, v))

--------------------------------------------------------------------------
(* The confidence validator with the early exits: ml/validation.rs.  The    *)
(* file reads several String fields of VisualData as Option<String>;       *)
(* is_some() on such a field is read as !is_empty() and as_ref().unwrap()  *)
(* as the field itself (fixes.rs 18-27).                                    *)

\* model_weights of MlValidator::new, with the default of the lookup for a
\* key the table lacks (validate reads "data_consistency", which is absent).
model_weights(key, default) ==
    CASE key = "mrz_checksum" -> Hundredths(30)
      [] key = "visual_consistency" -> Hundredths(25)
      [] key = "security_features" -> Hundredths(25)
      [] key = "fraud_detection" -> Hundredths(20)
      [] OTHER -> default

\* The pass threshold of validate (lines 140, 161, 183).
Threshold == Hundredths(75)

\* country_rules of MlValidator::new ("document_number_length:"), 0 without rule.
Ml_country_rules(country) ==
    IF country \in {<<"U", "S", "A">>, <<"G", "B", "R">>, <<"E", "S", "P">>,
                    <<"F", "R", "A">>} THEN 9
    ELSE IF country = <<"D", "E", "U">> THEN 10
    ELSE 0

Ml_validate_mrz_sum(m) ==
    FSum(<<When(m.document_number # <<>>, Tenths(2)),
           When(m.surname # <<>> /\ m.given_names # <<>>, Tenths(2)),
           When(m.nationality # <<>>, Tenths(1)),
           When(m.date_of_birth # <<>>, Tenths(2)),
           When(m.gender # <<>>, Tenths(1)),
           When(m.date_of_expiry # <<>>, Tenths(2)),
           IF Ml_country_rules(m.issuing_country) = 0 THEN Zero
           ELSE IF ByteLen(m.document_number) = Ml_country_rules(m.issuing_country)
                THEN Tenths(1) ELSE FNeg(Tenths(2))>>)

Ml_validate_mrz(m) == Clamp01(Ml_validate_mrz_sum(m))

Ml_validate_visual_data(v) ==
    Clamp01(FSum(<<When(v.document_number # <<>>, Hundredths(15)),
                   When(v.surname # <<>> \/ v.given_names # <<>>, Hundredths(15)),
                   When(v.date_of_birth # <<>>, Hundredths(15)),
                   When(v.gender # <<>>, Hundredths(15)),
                   When(v.date_of_expiry # <<>>, Hundredths(15)),
                   When(v.date_of_issue # <<>>, Tenths(1)),
                   When(is_some(v.place_of_birth), Tenths(1)),
                   When(is_some(v.authority), Hundredths(5))>>))

\* text1.chars().filter(|c| text2.contains(*c)).count()
CommonChars(text1, text2) ==
    Cardinality({i \in 1..Len(text1) : \E j \in 1..Len(text2) : text2[j] = text1[i]})

calculate_text_similarity(a, b) ==
    LET text1 == to_uppercase(a)
        text2 == to_uppercase(b)
        max_length == Max2(ByteLen(text1), ByteLen(text2))
    IN IF text1 = text2 THEN One
       ELSE IF max_length = 0 THEN Zero
       ELSE Frac(CommonChars(text1, text2), max_length)

\* date.replace("/", "").replace("-", "").replace(".", "")
StripDateSeparators(date) == SelectSeq(date, LAMBDA c : ~IsDateSeparator(c))

Ml_calculate_date_similarity(date1, date2) ==
    calculate_text_similarity(StripDateSeparators(date1), StripDateSeparators(date2))

Ml_consistency_checks(m, v) ==
    <<  <<m.document_number # <<>> /\ v.document_number # <<>>,
          calculate_text_similarity(m.document_number, v.document_number)>>,
        <<m.surname # <<>> /\ v.surname # <<>>,
          calculate_text_similarity(m.surname, v.surname)>>,
        <<m.date_of_birth # <<>> /\ v.date_of_birth # <<>>,
          Ml_calculate_date_similarity(m.date_of_birth, v.date_of_birth)>>,
        <<m.gender # <<>> /\ v.gender # <<>>,
          IF m.gender = v.gender THEN One ELSE Zero>>,
        <<m.date_of_expiry # <<>> /\ v.date_of_expiry # <<>>,
          Ml_calculate_date_similarity(m.date_of_expiry, v.date_of_expiry)>> >>

Ml_validate_consistency(m, v) ==
    AverageOr(Ml_consistency_checks(m, v), Tenths(3))

\* calculate_field_completeness: the percentage of ten fields that are filled.
calculate_field_completeness(data) ==
    LET filled == <<data.document_type # <<>>, data.issuing_country # <<>>,
                    data.document_number # <<>>, data.surname # <<>>,
                    data.given_names # <<>>, data.nationality # <<>>,
                    data.date_of_birth # <<>>, data.gender # <<>>,
                    data.date_of_expiry # <<>>, FilledOption(data.place_of_birth)>>
    IN Frac(Cardinality({i \in 1..10 : filled[i]}) * 100, 10)

\* detect_security_features: <<detected, score>> per evaluated feature.
SecurityFeatureChecks(v) ==
    <<  <<v.document_number # <<>> /\ ByteLen(v.document_number) > 4, Tenths(1)>>,
        <<Contains(v.document_number, <<"<">>) \/ Contains(v.document_number, <<">">>),
          Hundredths(15)>>,
        <<v.document_type = <<"P">>, Hundredths(15)>>,
        <<v.issuing_country # <<>>, Hundredths(15)>>,
        <<TRUE, Tenths(1)>>,
        <<v.surname # <<>> /\ v.given_names # <<>>, Tenths(1)>>,
        <<TRUE, Tenths(1)>> >>

detect_security_features(v) ==
    LET checks == SecurityFeatureChecks(v)
        features_evaluated == Len(checks)
        features_detected == Cardinality({i \in DOMAIN checks : checks[i][1]})
        security_score ==
            FAdd(FSum([i \in DOMAIN checks |-> When(checks[i][1], checks[i][2])]),
                 When(FLt(Tenths(7), calculate_field_completeness(v)), Hundredths(15)))
        detection_ratio == Frac(features_detected, features_evaluated)
        final_score == FAdd(FMul(security_score, Tenths(7)), FMul(detection_ratio, Tenths(3)))
    IN FMax(FMin(final_score, One), Zero)

\* 0.1 * n.powf(1.5) for the indicator counts detect_fraud can reach, as a
\* fraction rounded to four decimals (exact for 1 and 4; from 5 on the value
\* exceeds the cap 0.9 of line 549, whatever the rounding).
TenthOfPowThreeHalves(n) ==
    CASE n = 1 -> Frac(1000, 10000)
      [] n = 2 -> Frac(2828, 10000)
      [] n = 3 -> Frac(5196, 10000)
      [] n = 4 -> Frac(8000, 10000)
      [] OTHER -> Frac(11180, 10000)

has_latin(s) == \E i \in 1..Len(s) : s[i] \in Upper \cup Lower

has_non_latin(s) == \E i \in 1..Len(s) : s[i] \in {"é", "É"}

\* detect_fraud: <<found, penalty, indicators>> per check, in source order.
FraudChecks(m, v) ==
    <<  <<m.surname # <<>> /\ v.surname # <<>>
            /\ FLt(calculate_text_similarity(m.surname, v.surname), Tenths(7)),
          Hundredths(15), 1>>,
        <<m.document_number # <<>> /\ v.document_number # <<>>
            /\ FLt(calculate_text_similarity(
                       SelectSeq(m.document_number, is_alphanumeric),
                       SelectSeq(v.document_number, is_alphanumeric)), Tenths(9)),
          Tenths(3), 2>>,
        <<m.date_of_birth # <<>> /\ v.date_of_birth # <<>>
            /\ FLt(Ml_calculate_date_similarity(m.date_of_birth, v.date_of_birth), Tenths(8)),
          Hundredths(15), 1>>,
        <<v.date_of_expiry # <<>>
            /\ (Contains(v.date_of_expiry, <<"2", "0", "1">>)
                \/ Contains(v.date_of_expiry, <<"2", "0", "0">>)),
          Tenths(2), 1>>,
        <<v.date_of_birth # <<>>
            /\ (Contains(v.date_of_birth, <<"0", "0", "/", "0", "0">>)
                \/ Contains(v.date_of_birth, <<"9", "9", "/", "9", "9">>)),
          Tenths(4), 2>>,
        <<v.surname # <<>> /\ has_latin(v.surname) /\ has_non_latin(v.surname),
          Hundredths(5), 1>> >>

RECURSIVE IntSum(_)
IntSum(xs) == IF xs = <<>> THEN 0 ELSE Head(xs) + IntSum(Tail(xs))

Ml_detect_fraud(m, v) ==
    LET checks == FraudChecks(m, v)
        deducted == FSub(One, FSum([i \in DOMAIN checks |-> When(checks[i][1], checks[i][2])]))
        potential_fraud_indicators ==
            IntSum([i \in DOMAIN checks |-> IF checks[i][1] THEN checks[i][3] ELSE 0])
        fraud_multiplier ==
            FSub(One, FMin(TenthOfPowThreeHalves(potential_fraud_indicators), Tenths(9)))
        confidence == IF potential_fraud_indicators > 0
                      THEN FMul(deducted, fraud_multiplier) ELSE deducted
    IN FMax(FMin(confidence, One), Zero)

ValidationConfidence(mrz_c, visual_c, consistency_c, security_c, fraud_c) ==
    [mrz_confidence |-> mrz_c, visual_confidence |-> visual_c,
     consistency_confidence |-> consistency_c,
     security_feature_confidence |-> security_c,
     fraud_detection_confidence |-> fraud_c]

\* The weighted sum of lines 176-181.
overall_confidence(c) ==
    FSum(<<FMul(c.mrz_confidence, model_weights("mrz_checksum", Hundredths(25))),
           FMul(c.visual_confidence, model_weights("visual_consistency", Hundredths(25))),
           FMul(c.consistency_confidence, model_weights("data_consistency", Hundredths(25))),
           FMul(c.security_feature_confidence, model_weights("security_features", Hundredths(15))),
           FMul(c.fraud_detection_confidence, model_weights("fraud_detection", Hundredths(10)))>>)

\* The evaluation without the early exits: all five sub-scores, their weighted
\* sum, and the comparison with the threshold (lines 116, 131, 151, 172-193).
Ml_full_evaluation(m, v) ==
    LET c == ValidationConfidence(Ml_validate_mrz(m), Ml_validate_visual_data(v),
                                  Ml_validate_consistency(m, v),
                                  detect_security_features(v), Ml_detect_fraud(m, v))
    IN [is_valid |-> FLe(Threshold, overall_confidence(c)), path |-> "full",
        confidence |-> c]

\* MlValidator::validate (lines 114-194), with its three early returns.
Ml_validate(m, v) ==
    LET mrz_confidence == Ml_validate_mrz(m)
        mrz_weight == model_weights("mrz_checksum", Hundredths(25))
        visual_confidence == Ml_validate_visual_data(v)
        visual_weight == model_weights("visual_consistency", Hundredths(25))
        max_possible ==
            FSum(<<FMul(mrz_confidence, mrz_weight), FMul(visual_confidence, visual_weight),
                   FSub(FSub(One, mrz_weight), visual_weight)>>)
        consistency_confidence == Ml_validate_consistency(m, v)
        consistency_weight == model_weights("data_consistency", Hundredths(25))
        current_confidence ==
            FSum(<<FMul(mrz_confidence, mrz_weight), FMul(visual_confidence, visual_weight),
                   FMul(consistency_confidence, consistency_weight)>>)
        max_remaining_weight ==
            FSub(FSub(FSub(One, mrz_weight), visual_weight), consistency_weight)
    IN IF FLt(mrz_confidence, Hundredths(30))
          /\ FLt(FMul(mrz_confidence, mrz_weight), Hundredths(10))
       THEN [is_valid |-> FALSE, path |-> "exit_mrz",
             confidence |-> ValidationConfidence(mrz_confidence, Zero, Zero, Zero, Zero)]
       ELSE IF FLt(max_possible, Threshold)
       THEN [is_valid |-> FALSE, path |-> "exit_visual",
             confidence |-> ValidationConfidence(mrz_confidence, visual_confidence,
                                                 Zero, Zero, Zero)]
       ELSE IF FLt(FAdd(current_confidence, max_remaining_weight), Threshold)
       THEN [is_valid |-> FALSE, path |-> "exit_consistency",
             confidence |-> ValidationConfidence(mrz_confidence, visual_confidence,
                                                 consistency_confidence, Zero, Zero)]
       ELSE Ml_full_evaluation(m, v)

--------------------------------------------------------------------------
(* Inputs of the confidence validators: a complete MRZ record and a        *)
(* complete visual record, each with any set of its fields left empty.     *)

ConfMrzBases ==
    {[document_number |-> dn, surname |-> <<"S", "M", "I", "T", "H">>,
      given_names |-> <<"J", "O", "H", "N">>, nationality |-> <<"U", "S", "A">>,
      date_of_birth |-> <<"8", "0", "0", "1", "0", "1">>, gender |-> <<"M">>,
      date_of_expiry |-> <<"3", "0", "0", "1", "1", "5">>, issuing_country |-> c] :
        dn \in {<<"L", "8", "9", "8", "9", "0", "2", "C", "3">>, <<"L", "8", "9", "8", "9">>},
        c \in {<<"U", "S", "A">>, <<"U", "T", "O">>}}

ConfVisualBase ==
    [document_type |-> <<"P">>, issuing_country |-> <<"U", "S", "A">>,
     document_number |-> <<"L", "8", "9", "8", "9", "0", "2", "C", "3">>,
     surname |-> <<"S", "M", "I", "T", "H">>, given_names |-> <<"J", "O", "H", "N">>,
     nationality |-> <<"U", "S", "A">>,
     date_of_birth |-> <<"0", "1", "/", "0", "1", "/", "1", "9", "8", "0">>,
     gender |-> <<"M">>, place_of_birth |-> Some(<<"D", "A", "L", "L", "A", "S">>),
     date_of_issue |-> <<"1", "5", "/", "0", "1", "/", "2", "0", "2", "0">>,
     date_of_expiry |-> <<"1", "5", "/", "0", "1", "/", "2", "0", "3", "0">>,
     authority |-> Some(<<"D", "O", "S">>)]

\* Visual records as the extraction can leave them: as printed, misread
\* (document number and surname, the surname with a non-Latin letter), or
\* with an expired date and an empty place of birth.
ConfVisualBases ==
    {ConfVisualBase,
     [ConfVisualBase EXCEPT !.document_number = <<"X", "7", "Y", "7", "2">>,
                            !.surname = <<"S", "M", "é", "T", "H">>,
                            !.gender = <<"F">>],
     [ConfVisualBase EXCEPT !.date_of_expiry = <<"1", "5", "/", "0", "1", "/", "2", "0", "1", "0">>,
                            !.date_of_birth = <<"0", "0", "/", "0", "0", "/", "1", "9", "8", "0">>,
                            !.place_of_birth = Some(<<>>)]}

\* The record r with the fields of S empty (None for an Option field).
Blank(r, S) == [f \in DOMAIN r |-> IF f \in S THEN <<>> ELSE r[f]]

ConfMrzBlankable ==
    {"document_number", "surname", "given_names", "nationality", "date_of_birth",
     "gender", "date_of_expiry", "issuing_country"}

\* Fields of the visual record that the extraction finds or misses together.
ConfVisualGroups ==
    {{"document_number"}, {"surname", "given_names"}, {"gender"},
     {"date_of_birth", "date_of_expiry", "date_of_issue"},
     {"place_of_birth", "authority"},
     {"document_type", "issuing_country", "nationality"}}

ConfMrzInputs == {Blank(b, S) : b \in ConfMrzBases, S \in SUBSET ConfMrzBlankable}

ConfVisualInputs ==
    {Blank(b, UNION G) : b \in ConfVisualBases, G \in SUBSET ConfVisualGroups}

InitConfidence ==
    /\ pc = "input"
    /\ mrz \in ConfMrzInputs
    /\ visual \in ConfVisualInputs
    /\ text = Unused
    /\ env = Unused
    /\ corrected = Unused
    /\ recorrected = Unused
    /\ outcome = Unused

\* self.ml_validator.validate(&mrz_data, &visual_data) with the validator of
\* ml/simple_validator.rs (passport_validator.rs 132).
SimpleValidate ==
    /\ pc = "input"
    /\ outcome' = [validator |-> "simple", result |-> Simple_validate(mrz, visual)]
    /\ pc' = "validated"
    /\ UNCHANGED <<text, mrz, visual, env, corrected, recorrected>>

\* The same call with the validator of ml/validation.rs.
MlValidate ==
    /\ pc = "input"
    /\ outcome' = [validator |-> "ml", result |-> Ml_validate(mrz, visual)]
    /\ pc' = "validated"
    /\ UNCHANGED <<text, mrz, visual, env, corrected, recorrected>>

NextConfidence == SimpleValidate \/ MlValidate

SpecConfidence == InitConfidence /\ [][NextConfidence]_vars

--------------------------------------------------------------------------
(* Claims about the confidence validators (checked under SpecConfidence) *)

SubScores(c) ==
    {c.mrz_confidence, c.visual_confidence, c.consistency_confidence,
     c.security_feature_confidence, c.fraud_detection_confidence}

\* C2: the early exit is transparent: whenever validate returns early, the
\* is_valid it returns equals the is_valid of the full evaluation (all five
\* sub-scores, weighted sum against the threshold) of the same records.
C2_EarlyExitTransparent ==
    (pc = "validated" /\ outcome.validator = "ml" /\ outcome.result.path # "full") =>
        outcome.result.is_valid = Ml_full_evaluation(mrz, visual).is_valid

\* C5: each of the five sub-scores returned by either validator lies in
\* [0, 1], for every pair of records (empty ones included) and on every
\* return path.
C5_SubScoresInUnit ==
    pc = "validated" => \A s \in SubScores(outcome.result.confidence) : InUnit(s)

\* C5 witness: the validator has returned by its first early exit for an MRZ
\* record and a visual record whose fields are all empty.
C5_Witness ==
    /\ pc = "validated"
    /\ \A f \in DOMAIN mrz : mrz[f] = <<>>
    /\ \A f \in DOMAIN visual : visual[f] = <<>>
    /\ outcome.validator = "ml"
    /\ outcome.result.path = "exit_mrz"

--------------------------------------------------------------------------
(* MRZ validation: validation/mrz.rs.  A NaiveDate is the triple            *)
(* <<year, month, day>>; a ValidationIssue is a record of its type and the  *)
(* fixed part of its message.                                               *)

ValidationIssue(type, message) == [issue_type |-> type, message |-> message]

\* The value calculate_check_digit gives a character (lines 91-96).
CharValue(c) ==
    IF c \in Digit THEN IndexIn(c, DigitSeq) - 1
    ELSE IF c \in Upper THEN IndexIn(c, UpperSeq) - 1 + 10
    ELSE 0

weights == <<7, 3, 1>>

RECURSIVE WeightedSum(_, _)
\* The sum of value * weights[i % 3] over the characters from index i (0-based) on.
WeightedSum(field, i) ==
    IF i >= Len(field) THEN 0
    ELSE CharValue(field[i + 1]) * weights[(i % 3) + 1] + WeightedSum(field, i + 1)

calculate_check_digit(field) == DigitSeq[(WeightedSum(field, 0) % 10) + 1]

validate_check_digit(field, check_char) == calculate_check_digit(field) = check_char

clean_field(field) == SelectSeq(field, is_ascii_alphanumeric)

Mrz_fields_match(field1, field2) == clean_field(field1) = clean_field(field2)

Mrz_fields_match_case_insensitive(field1, field2) ==
    to_uppercase(clean_field(field1)) = to_uppercase(clean_field(field2))

Mrz_names_compatible(mrz_name, visual_name) ==
    IF mrz_name = <<>> \/ visual_name = <<>> THEN TRUE
    ELSE LET clean_mrz == to_uppercase(clean_field(mrz_name))
             clean_viz == to_uppercase(clean_field(visual_name))
         IN Contains(clean_mrz, clean_viz) \/ Contains(clean_viz, clean_mrz)
            \/ clean_mrz = clean_viz

IsLeapYear(y) == (y % 4 = 0 /\ y % 100 # 0) \/ y % 400 = 0

DaysInMonth(y, m) ==
    IF m = 2 THEN (IF IsLeapYear(y) THEN 29 ELSE 28)
    ELSE IF m \in {4, 6, 9, 11} THEN 30 ELSE 31

\* The largest year of a chrono NaiveDate.
MaxNaiveYear == 262142

\* NaiveDate::from_ymd_opt for a year that is not negative.
from_ymd_opt(year, month, day) ==
    IF /\ year >= 0 /\ year <= MaxNaiveYear
       /\ month >= 1 /\ month <= 12
       /\ day >= 1 /\ day <= DaysInMonth(year, month)
    THEN Some(<<year, month, day>>) ELSE None

\* s.parse().unwrap_or(0)
ParseOr0(s) == IF ParseNum(s) < 0 THEN 0 ELSE ParseNum(s)

Mrz_parse_date(date_str) ==
    LET cleaned == SelectSeq(date_str, LAMBDA c : is_ascii_digit(c) \/ IsDateSeparator(c))
        parts == SplitOn(cleaned, {"/", "-", "."})
    IN IF Len(cleaned) = 6 /\ \A i \in 1..6 : is_ascii_digit(cleaned[i])
       THEN from_ymd_opt(2000 + ParseOr0(Slice(cleaned, 0, 2)),
                         ParseOr0(Slice(cleaned, 2, 4)), ParseOr0(Slice(cleaned, 4, 6)))
       ELSE IF Len(parts) = 3
       THEN IF Len(parts[1]) = 2 /\ Len(parts[3]) = 4
            THEN from_ymd_opt(ParseOr0(parts[3]), ParseOr0(parts[2]), ParseOr0(parts[1]))
            ELSE IF Len(parts[1]) = 4 /\ Len(parts[3]) = 2
            THEN from_ymd_opt(ParseOr0(parts[1]), ParseOr0(parts[2]), ParseOr0(parts[3]))
            ELSE LET y == ParseOr0(parts[3])
                 IN from_ymd_opt(IF y < 100 THEN y + 2000 ELSE y,
                                 ParseOr0(parts[2]), ParseOr0(parts[1]))
       ELSE None

\* dates_compatible once both dates went through parse_date (lines 226-242).
ParsedDatesCompatible(mrz_date, visual_date, mrz_parsed, viz_parsed) ==
    IF is_some(mrz_parsed) /\ is_some(viz_parsed)
    THEN mrz_parsed = viz_parsed
    ELSE LET clean_mrz == clean_field(mrz_date)
             clean_viz == clean_field(visual_date)
         IN IF Len(clean_mrz) = Len(clean_viz) THEN clean_mrz = clean_viz
            ELSE Contains(clean_mrz, clean_viz) \/ Contains(clean_viz, clean_mrz)

Mrz_dates_compatible(mrz_date, visual_date) ==
    IF mrz_date = <<>> \/ visual_date = <<>> THEN TRUE
    ELSE ParsedDatesCompatible(mrz_date, visual_date,
                               Mrz_parse_date(mrz_date), Mrz_parse_date(visual_date))

\* if cond { issues.push(issue) }
IssueIf(cond, issue) == IF cond THEN <<issue>> ELSE <<>>

cross_check_fields(m, v) ==
    IssueIf(~Mrz_fields_match(m.document_number, v.document_number),
            ValidationIssue("Mrz", "Document number mismatch"))
    \o IssueIf(v.surname # <<>> /\ ~Mrz_names_compatible(m.surname, v.surname),
               ValidationIssue("Mrz", "Surname mismatch"))
    \o IssueIf(v.given_names # <<>> /\ ~Mrz_names_compatible(m.given_names, v.given_names),
               ValidationIssue("Mrz", "Given names mismatch"))
    \o IssueIf(v.date_of_birth # <<>>
                   /\ ~Mrz_dates_compatible(m.date_of_birth, v.date_of_birth),
               ValidationIssue("Mrz", "Date of birth mismatch"))
    \o IssueIf(v.gender # <<>> /\ ~Mrz_fields_match_case_insensitive(m.gender, v.gender),
               ValidationIssue("Mrz", "Gender mismatch"))
    \o IssueIf(v.date_of_expiry # <<>>
                   /\ ~Mrz_dates_compatible(m.date_of_expiry, v.date_of_expiry),
               ValidationIssue("Mrz", "Date of expiry mismatch"))
    \o IssueIf(is_some(m.personal_number) /\ is_some(v.personal_number)
                   /\ ~Mrz_fields_match(Unwrap(m.personal_number), Unwrap(v.personal_number)),
               ValidationIssue("Mrz", "Personal number mismatch"))

\* composite_check_valid: true (line 69).
AssumedCompositeCheck(m) == TRUE

\* MrzValidator::validate; it always returns Ok.  The record of lines 61-71
\* and the issues of lines 27-58, from the four checks and the cross-check.
MrzValidationResult(doc_num_check, dob_check, doe_check, personal_num_check, inconsistencies, composite_check) ==
    [is_valid |-> doc_num_check /\ dob_check /\ doe_check /\ personal_num_check
                  /\ inconsistencies = <<>>,
     document_number_check_valid |-> doc_num_check,
     date_of_birth_check_valid |-> dob_check,
     date_of_expiry_check_valid |-> doe_check,
     personal_number_check_valid |-> personal_num_check,
     composite_check_valid |-> composite_check,
     issues |->
         IssueIf(~doc_num_check,
                 ValidationIssue("Mrz", "Document number check digit is invalid"))
         \o IssueIf(~dob_check,
                    ValidationIssue("Mrz", "Date of birth check digit is invalid"))
         \o IssueIf(~doe_check,
                    ValidationIssue("Mrz", "Date of expiry check digit is invalid"))
         \o IssueIf(~personal_num_check,
                    ValidationIssue("Mrz", "Personal number check digit is invalid"))
         \o inconsistencies]

MrzValidator_validate(m, v) ==
    MrzValidationResult(
        validate_check_digit(m.document_number, m.check_digits.document_number_check),
        validate_check_digit(m.date_of_birth, m.check_digits.date_of_birth_check),
        validate_check_digit(m.date_of_expiry, m.check_digits.date_of_expiry_check),
        IF is_some(m.personal_number)
        THEN validate_check_digit(Unwrap(m.personal_number),
                                  m.check_digits.personal_number_check)
        ELSE TRUE,
        cross_check_fields(m, v),
        AssumedCompositeCheck(m))

--------------------------------------------------------------------------
(* The other validators run by validate_all: validation/format.rs,          *)
(* expiry.rs, security.rs, biometric.rs, database.rs.                       *)

FormatValidator_validate(v) ==
    LET issues ==
            IssueIf(v.document_number = <<>>,
                    ValidationIssue("Format", "Document number is missing"))
            \o IssueIf(v.surname = <<>>, ValidationIssue("Format", "Surname is missing"))
            \o IssueIf(v.given_names = <<>>,
                       ValidationIssue("Format", "Given names are missing"))
            \o IssueIf(v.date_of_birth = <<>>,
                       ValidationIssue("Format", "Date of birth is missing"))
            \o IssueIf(v.date_of_expiry = <<>>,
                       ValidationIssue("Format", "Date of expiry is missing"))
        correct_format ==
            ~(v.document_number = <<>> \/ v.surname = <<>> \/ v.given_names = <<>>
              \/ v.date_of_birth = <<>> \/ v.date_of_expiry = <<>>)
    IN [is_valid |-> correct_format, correct_format |-> correct_format, issues |-> issues]

\* str::split_whitespace: the non-empty parts between whitespace.
split_whitespace(s) == SelectSeq(SplitOn(s, {" ", "\t"}), LAMBDA part : part # <<>>)

\* ExpiryValidator::parse_date ("DD MM YYYY"); a year is never negative in
\* the inputs of the model.
Expiry_parse_date(date_str) ==
    LET parts == split_whitespace(date_str)
    IN IF Len(parts) # 3 THEN None
       ELSE IF ParseNum(parts[1]) < 0 \/ ParseNum(parts[2]) < 0 \/ ParseNum(parts[3]) < 0
       THEN None
       ELSE from_ymd_opt(ParseNum(parts[3]), ParseNum(parts[2]), ParseNum(parts[1]))

\* NaiveDate >= NaiveDate
DateGe(a, b) ==
    \/ a[1] > b[1]
    \/ a[1] = b[1] /\ a[2] > b[2]
    \/ a[1] = b[1] /\ a[2] = b[2] /\ a[3] >= b[3]

UNKNOWN == <<"U", "N", "K", "N", "O", "W", "N">>

\* ExpiryValidator::validate_with_mrz; today is Local::now().naive_local().date().
ExpiryValidationResult(date, today) ==
    LET not_expired == is_some(date) /\ DateGe(Unwrap(date), today)
        issues ==
            IF is_some(date)
            THEN IssueIf(~not_expired, ValidationIssue("Expiry", "Passport has expired"))
            ELSE <<ValidationIssue("Expiry",
                       "Invalid expiry date format in both visual and MRZ data")>>
    IN [is_valid |-> not_expired, not_expired |-> not_expired, issues |-> issues]

\* visual_date_result, or the MRZ date when the visual one is None (lines 13-30).
OrMrzDate(visual_date_result, mrz_date) ==
    IF is_none(visual_date_result) THEN Expiry_parse_date(mrz_date)
    ELSE visual_date_result

validate_with_mrz(v, m, today) ==
    ExpiryValidationResult(
        OrMrzDate(IF v.date_of_expiry # UNKNOWN THEN Expiry_parse_date(v.date_of_expiry)
                  ELSE None,
                  m.date_of_expiry),
        today)

\* The features validate_with_format reports when missing, in source order.
CheckedSecurityFeatures ==
    << <<"hologram_present", "Hologram not detected">>,
       <<"microprinting_present", "Microprinting not detected">>,
       <<"uv_features_present", "UV features not detected">>,
       <<"ir_features_present", "IR features not detected">>,
       <<"watermark_present", "Watermark not detected">>,
       <<"security_thread_present", "Security thread not detected">>,
       <<"chip_present", "Chip not detected">>,
       <<"level_1_features", "No Level 1 security features detected">>,
       <<"level_2_features", "No Level 2 security features detected">> >>

RECURSIVE Flatten(_)
\* The concatenation of a sequence of sequences.
Flatten(ss) == IF ss = <<>> THEN <<>> ELSE Head(ss) \o Flatten(Tail(ss))

\* SecurityValidator::validate_with_format, the check of a SecurityFeatures
\* value (security.rs 45-164); features is the set of the features present.
SecurityValidator_validate(features) ==
    LET issues ==
            Flatten([i \in DOMAIN CheckedSecurityFeatures |->
                        IssueIf(CheckedSecurityFeatures[i][1] \notin features,
                                ValidationIssue("Security", CheckedSecurityFeatures[i][2]))])
    IN [is_valid |-> issues = <<>>, issues |-> issues]

\* The quality ICAO asks for (data.face_quality >= 0.8), in hundredths.
MinQuality == 80

BiometricValidator_validate(data) ==
    LET chip_authentic ==
            is_some(data.chip_data) /\ Unwrap(data.chip_data).is_readable
            /\ Unwrap(data.chip_data).authentication_success
        face_quality_valid == data.face_quality >= MinQuality
        fingerprint_quality_valid ==
            ~data.has_fingerprint_requirement \/ data.fingerprint_quality >= MinQuality
        iris_quality_valid == ~data.has_iris_requirement \/ data.iris_quality >= MinQuality
        issues ==
            IssueIf(~data.face_image,
                    ValidationIssue("Biometric", "Face image not available for comparison"))
            \o IssueIf(~data.fingerprint_data /\ data.has_fingerprint_requirement,
                       ValidationIssue("Biometric", "Fingerprint data missing but required"))
            \o IssueIf(~data.iris_data /\ data.has_iris_requirement,
                       ValidationIssue("Biometric", "Iris data missing but required"))
            \o IssueIf(~chip_authentic /\ data.has_chip_requirement,
                       ValidationIssue("Biometric", "Chip authentication failed"))
            \o IssueIf(~face_quality_valid,
                       ValidationIssue("Biometric", "Face image quality below ICAO standards"))
            \o IssueIf(~fingerprint_quality_valid /\ data.has_fingerprint_requirement,
                       ValidationIssue("Biometric", "Fingerprint quality below ICAO standards"))
            \o IssueIf(~iris_quality_valid /\ data.has_iris_requirement,
                       ValidationIssue("Biometric", "Iris quality below ICAO standards"))
    IN [is_valid |-> issues = <<>>, chip_authentic |-> chip_authentic, issues |-> issues]

\* DatabaseValidator::validate: the placeholder lookup always succeeds.
DatabaseValidator_validate(v) ==
    LET in_database == TRUE
    IN [is_valid |-> in_database, in_database |-> in_database,
        issues |-> IssueIf(~in_database,
                           ValidationIssue("Database", "Passport not found in database"))]

--------------------------------------------------------------------------
(* The orchestration: PassportValidator::validate_all (passport_validator.rs *)
(* 102-184).  Every validator returns Ok, so validate_all returns Ok.        *)

\* The ML step (lines 128-156): the messages pushed to ml_validation_issues.
MlValidationIssues(use_ml_validation, m, v) ==
    IF use_ml_validation /\ ~Simple_validate(m, v).is_valid
    THEN <<"ML validation failed">> ELSE <<>>

\* Lines 158-183: is_valid, the issues collected from the six results, and
\* the ValidationResult.
ValidationResult(mrz_validation, security_validation, format_validation, biometric_validation, database_validation, expiry_validation) ==
    [is_valid |-> /\ mrz_validation.is_valid /\ security_validation.is_valid
                  /\ format_validation.is_valid /\ biometric_validation.is_valid
                  /\ database_validation.is_valid /\ expiry_validation.is_valid,
     mrz_validation |-> mrz_validation,
     security_validation |-> security_validation,
     format_validation |-> format_validation,
     biometric_validation |-> biometric_validation,
     database_validation |-> database_validation,
     expiry_validation |-> expiry_validation,
     issues |-> mrz_validation.issues \o security_validation.issues
                \o format_validation.issues \o biometric_validation.issues
                \o database_validation.issues \o expiry_validation.issues]

\* The ML step changes nothing of the result (see MlValidationIssues).
validate_all(m, security_features, v, biometric_data, use_ml_validation, today) ==
    ValidationResult(MrzValidator_validate(m, v),
                     SecurityValidator_validate(security_features),
                     FormatValidator_validate(v),
                     BiometricValidator_validate(biometric_data),
                     DatabaseValidator_validate(v),
                     validate_with_mrz(v, m, today))

\* MRTDVerifier::validate_check_digit (verification/mrtd.rs 305-318): the
\* placeholder returns true whatever the field and the check character.
Mrtd_validate_check_digit(data, check_digit) == TRUE

\* Lines 211-220 and 232-241: the date rebuilt as YYMMDD for the check, from
\* a date written "DD MM YYYY"; "000000" for any other date.
DateForCheck(date) ==
    LET parts == split_whitespace(date)
    IN IF Len(parts) = 3
       THEN SubSeq(parts[3], 3, Len(parts[3])) \o parts[2] \o parts[1]
       ELSE <<"0", "0", "0", "0", "0", "0">>

valid_doc_types(document_format) ==
    CASE document_format \in {"TD1", "TD2"} -> {<<"I", "D">>, <<"A">>}
      [] document_format = "TD3" -> {<<"P">>}
      [] document_format \in {"MRVA", "MRVB"} -> {<<"V">>}
      [] OTHER -> {<<"P">>, <<"I", "D">>, <<"A">>, <<"V">>}

\* MRTDVerifier::validate_mrz (verification/mrtd.rs 184-302).
Mrtd_validate_mrz(m) ==
    LET document_number_check_valid ==
            Mrtd_validate_check_digit(m.document_number,
                                      m.check_digits.document_number_check)
        date_of_birth_check_valid ==
            Mrtd_validate_check_digit(DateForCheck(m.date_of_birth),
                                      m.check_digits.date_of_birth_check)
        date_of_expiry_check_valid ==
            Mrtd_validate_check_digit(DateForCheck(m.date_of_expiry),
                                      m.check_digits.date_of_expiry_check)
        personal_number_check_valid ==
            IF is_some(m.personal_number)
            THEN Mrtd_validate_check_digit(Unwrap(m.personal_number),
                                           m.check_digits.personal_number_check)
            ELSE TRUE
        composite_check_valid == TRUE
        issues ==
            IssueIf(m.document_type \notin valid_doc_types(m.document_format),
                    ValidationIssue("Mrz", "Invalid document type"))
            \o IssueIf(~document_number_check_valid,
                       ValidationIssue("Mrz", "Invalid document number check digit"))
            \o IssueIf(~date_of_birth_check_valid,
                       ValidationIssue("Mrz", "Invalid date of birth check digit"))
            \o IssueIf(~date_of_expiry_check_valid,
                       ValidationIssue("Mrz", "Invalid date of expiry check digit"))
            \o IssueIf(~personal_number_check_valid,
                       ValidationIssue("Mrz", "Invalid personal number check digit"))
            \o IssueIf(~composite_check_valid,
                       ValidationIssue("Mrz", "Invalid composite check digit"))
    IN [is_valid |-> /\ document_number_check_valid /\ date_of_birth_check_valid
                     /\ date_of_expiry_check_valid /\ personal_number_check_valid
                     /\ composite_check_valid,
        document_number_check_valid |-> document_number_check_valid,
        date_of_birth_check_valid |-> date_of_birth_check_valid,
        date_of_expiry_check_valid |-> date_of_expiry_check_valid,
        personal_number_check_valid |-> personal_number_check_valid,
        composite_check_valid |-> composite_check_valid,
        issues |-> issues]

--------------------------------------------------------------------------
(* Inputs of the validation: the MRZ record of the ICAO specimen passport   *)
(* with every combination of right and wrong check characters, data pages   *)
(* as the visual extraction can return them, and what the collaborators     *)
(* (security and biometric detection, the clock) report.                    *)

ValidateMrzFields ==
    [document_format |-> "TD3", document_type |-> <<"P">>,
     issuing_country |-> <<"U", "T", "O">>,
     document_number |-> <<"L", "8", "9", "8", "9", "0", "2", "C", "3">>,
     surname |-> <<"E", "R", "I", "K", "S", "S", "O", "N">>, given_names |-> <<"A", "N", "N", "A", " ", "M", "A", "R", "I", "A">>,
     nationality |-> <<"U", "T", "O">>,
     date_of_birth |-> <<"7", "4", "0", "8", "1", "2">>, gender |-> <<"F">>,
     date_of_expiry |-> <<"1", "2", "0", "4", "1", "5">>,
     personal_number |-> Some(<<"Z", "E", "1", "8", "4", "2", "2", "6", "B", "<", "<", "<", "<", "<">>),
     place_of_birth |-> None]

\* The characters a check position can hold: the right digit, another digit,
\* or the filler.
CheckChars(field) ==
    {calculate_check_digit(field),
     DigitSeq[((IndexIn(calculate_check_digit(field), DigitSeq)) % 10) + 1], "<"}

\* The personal number field of line 2, fillers included.
PersonalNumberField(m) ==
    IF is_some(m.personal_number) THEN Unwrap(m.personal_number) ELSE Rep("<", 14)

\* What the composite check digit covers in a TD3 line 2: positions 0-9,
\* 13-19 and 21-42 (number, dates and personal number with their digits).
CompositeField(m) ==
    LET pn == PersonalNumberField(m)
    IN m.document_number \o <<m.check_digits.document_number_check>>
       \o m.date_of_birth \o <<m.check_digits.date_of_birth_check>>
       \o m.date_of_expiry \o <<m.check_digits.date_of_expiry_check>>
       \o pn \o Rep("<", 14 - Len(pn)) \o <<m.check_digits.personal_number_check>>

WithCheckDigits(m, dn, dob, doe, pn, comp) ==
    [f \in DOMAIN m \cup {"check_digits"} |->
        IF f = "check_digits"
        THEN [document_number_check |-> dn, date_of_birth_check |-> dob,
              date_of_expiry_check |-> doe, personal_number_check |-> pn,
              composite_check |-> comp]
        ELSE m[f]]

\* The MRZ records with the check characters drawn for the record b.
WithAnyCheckDigits(b) ==
    LET partial == {WithCheckDigits(b, dn, dob, doe, pn, "0") :
                        dn \in CheckChars(b.document_number),
                        dob \in CheckChars(b.date_of_birth),
                        doe \in CheckChars(b.date_of_expiry),
                        pn \in CheckChars(PersonalNumberField(b)) \ {"<"}}
    IN UNION {{[p EXCEPT !.check_digits.composite_check = c] :
                   c \in CheckChars(CompositeField(p)) \ {"<"}} : p \in partial}

ValidateMrzInputs ==
    WithAnyCheckDigits(ValidateMrzFields)
    \cup WithAnyCheckDigits([ValidateMrzFields EXCEPT !.personal_number = None])

ValidateVisualBase ==
    [document_type |-> <<"P">>, issuing_country |-> <<"U", "T", "O">>,
     document_number |-> <<"L", "8", "9", "8", "9", "0", "2", "C", "3">>,
     name |-> <<"A", "N", "N", "A", " ", "M", "A", "R", "I", "A", " ", "E", "R", "I", "K", "S", "S", "O", "N">>,
     surname |-> <<"E", "R", "I", "K", "S", "S", "O", "N">>, given_names |-> <<"A", "N", "N", "A", " ", "M", "A", "R", "I", "A">>,
     nationality |-> <<"U", "T", "O">>,
     date_of_birth |-> <<"1", "2", "/", "0", "8", "/", "1", "9", "7", "4">>, gender |-> <<"F">>,
     place_of_birth |-> Some(<<"Z", "E", "N", "I", "T", "H">>),
     date_of_issue |-> <<"1", "6", "/", "0", "4", "/", "2", "0", "0", "2">>,
     date_of_expiry |-> <<"1", "5", "/", "0", "4", "/", "2", "0", "1", "2">>,
     authority |-> Some(<<"U", "T", "O">>), personal_number |-> None]

ValidateVisualInputs ==
    {ValidateVisualBase,
     [ValidateVisualBase EXCEPT !.document_number = <<"L", "8", "9", "8", "9", "0", "2", "C", "8">>],
     [ValidateVisualBase EXCEPT !.gender = <<"M">>,
                                !.surname = <<"E", "R", "I", "C", "S", "O", "N">>],
     [ValidateVisualBase EXCEPT !.date_of_expiry = <<"1", "5", " ", "0", "4", " ", "2", "0", "1", "2">>],
     [ValidateVisualBase EXCEPT !.date_of_expiry = UNKNOWN,
                                !.date_of_birth = <<>>, !.surname = <<>>],
     Blank(ValidateVisualBase, DOMAIN ValidateVisualBase)}

AllSecurityFeatures == {CheckedSecurityFeatures[i][1] : i \in DOMAIN CheckedSecurityFeatures}

\* validate_with_extracted_data's placeholders (passport_validator.rs 76-91).
PlaceholderSecurityFeatures == {}

PlaceholderBiometricData ==
    [face_image |-> FALSE, fingerprint_data |-> FALSE, iris_data |-> FALSE,
     chip_data |-> None, face_quality |-> 0, fingerprint_quality |-> 0,
     iris_quality |-> 0, has_chip_requirement |-> FALSE,
     has_fingerprint_requirement |-> FALSE, has_iris_requirement |-> FALSE]

GoodBiometricData ==
    [PlaceholderBiometricData EXCEPT
        !.face_image = TRUE, !.face_quality = 90, !.has_chip_requirement = TRUE,
        !.chip_data = Some([is_readable |-> TRUE, authentication_success |-> TRUE])]

ValidateEnvInputs ==
    [security_features : {AllSecurityFeatures, AllSecurityFeatures \ {"chip_present"}},
     biometric_data : {GoodBiometricData, [GoodBiometricData EXCEPT !.chip_data = None]},
     use_ml_validation : BOOLEAN,
     today : {<<2010, 1, 1>>, <<2026, 11, 3>>}]

--------------------------------------------------------------------------
(* Specification of the validation.  validate (passport_validator.rs 34-67) *)
(* is modelled from the point where its collaborators have returned the     *)
(* MRZ record, the visual record, the security features and the biometric   *)
(* data: it reconciles the visual record and runs validate_all.             *)

InitValidate ==
    /\ pc = "input"
    /\ mrz \in ValidateMrzInputs
    /\ visual \in ValidateVisualInputs
    /\ env \in ValidateEnvInputs
    /\ text = Unused
    /\ corrected = Unused
    /\ recorrected = Unused
    /\ outcome = Unused

\* What a caller of validate_all gets, with the list validate_all filled in
\* its ML step and still holds when it returns.
ValidateAllOutcome(m, security_features, v, biometric_data) ==
    [result |-> validate_all(m, security_features, v, biometric_data,
                             env.use_ml_validation, env.today),
     ml_validation_issues |-> MlValidationIssues(env.use_ml_validation, m, v)]

Validate ==
    /\ pc = "input"
    /\ corrected' = CorrectionRun(mrz, visual)
    /\ outcome' = ValidateAllOutcome(mrz, env.security_features,
                                     correct_visual_data(mrz, visual), env.biometric_data)
    /\ pc' = "validated"
    /\ UNCHANGED <<text, mrz, visual, env, recorrected>>

ValidateWithExtractedData ==
    /\ pc = "input"
    /\ corrected' = CorrectionRun(mrz, visual)
    /\ outcome' = ValidateAllOutcome(mrz, PlaceholderSecurityFeatures,
                                     correct_visual_data(mrz, visual),
                                     PlaceholderBiometricData)
    /\ pc' = "validated"
    /\ UNCHANGED <<text, mrz, visual, env, recorrected>>

\* MRTDVerifier::validate_mrz on the same MRZ record.
MrtdValidateMrz ==
    /\ pc = "input"
    /\ outcome' = [result |-> [mrz_validation |-> Mrtd_validate_mrz(mrz),
                               issues |-> Mrtd_validate_mrz(mrz).issues],
                   ml_validation_issues |-> <<>>]
    /\ pc' = "mrtd_validated"
    /\ UNCHANGED <<text, mrz, visual, env, corrected, recorrected>>

NextValidate == Validate \/ ValidateWithExtractedData \/ MrtdValidateMrz

SpecValidate == InitValidate /\ [][NextValidate]_vars

--------------------------------------------------------------------------
(* Claims about the validation (checked under SpecValidate) *)

\* The elements of a sequence.
Range(seq) == {seq[i] : i \in DOMAIN seq}

SubValidations ==
    {"mrz_validation", "security_validation", "format_validation",
     "biometric_validation", "database_validation", "expiry_validation"}

\* C3: no failed check is silently dropped: when a check run by validate_all
\* fails (a validator reporting not valid, or the confidence validator
\* reporting not valid), the returned result is not valid and its issue list
\* holds an entry for that failure.
C3_NoFailedCheckDropped ==
    pc = "validated" =>
        LET r == outcome.result
        IN /\ \A part \in SubValidations :
                  ~r[part].is_valid =>
                      /\ ~r.is_valid
                      /\ r[part].issues # <<>>
                      /\ Range(r[part].issues) \subseteq Range(r.issues)
           /\ outcome.ml_validation_issues # <<>> =>
                  /\ ~r.is_valid
                  /\ \E i \in Range(r.issues) :
                         i.message \in Range(outcome.ml_validation_issues)

\* The check digit as the claim states it: digit = its value, letter =
\* position after 'A' plus 10, '<' = 0; weights 7, 3, 1 repeating by
\* position; the sum modulo 10.
IcaoValue(c) ==
    CASE c \in Digit -> CHOOSE n \in 0..9 : DigitSeq[n + 1] = c
      [] c \in Upper -> 10 + (CHOOSE n \in 0..25 : UpperSeq[n + 1] = c)
      [] OTHER -> 0

RECURSIVE IcaoSum(_, _)
IcaoSum(field, n) ==
    IF n = 0 THEN 0
    ELSE IcaoSum(field, n - 1)
         + IcaoValue(field[n]) * (CASE n % 3 = 1 -> 7 [] n % 3 = 2 -> 3 [] OTHER -> 1)

IcaoCheckDigit(field) == DigitSeq[(IcaoSum(field, Len(field)) % 10) + 1]

\* C7: for each of the five checksummed items, validation reports the check
\* as valid exactly when the embedded check character equals the ICAO 7-3-1
\* modulo-10 digit of the item.
C7_CheckValidIffDigitMatches ==
    pc \in {"validated", "mrtd_validated"} =>
        LET r == outcome.result.mrz_validation
            cd == mrz.check_digits
        IN /\ r.document_number_check_valid
                  = (cd.document_number_check = IcaoCheckDigit(mrz.document_number))
           /\ r.date_of_birth_check_valid
                  = (cd.date_of_birth_check = IcaoCheckDigit(mrz.date_of_birth))
           /\ r.date_of_expiry_check_valid
                  = (cd.date_of_expiry_check = IcaoCheckDigit(mrz.date_of_expiry))
           /\ r.personal_number_check_valid
                  = (cd.personal_number_check = IcaoCheckDigit(PersonalNumberField(mrz)))
           /\ r.composite_check_valid
                  = (cd.composite_check = IcaoCheckDigit(CompositeField(mrz)))

--------------------------------------------------------------------------
(* MRZ decoding: processing/enhanced_ocr.rs (OcrProcessor).  The OCR text   *)
(* is the list of its lines (str::lines); a line is a sequence of           *)
(* characters.  A Result is [ok |-> TRUE, mrz |-> record] or                *)
(* [ok |-> FALSE, error |-> variant of PassportError].                      *)

Ok(m) == [ok |-> TRUE, mrz |-> m]

Err(e) == [ok |-> FALSE, error |-> e]

Alphanumeric == AsciiAlnum \cup {"é", "É"}

MrzAlphabet == Digit \cup Upper \cup {"<"}

\* DocumentFormat::TD3.mrz_chars_per_line() (models/data.rs)
mrz_chars_per_line == 44

\* s.chars().filter(|c| c in S).count()
CountIn(s, S) == Len(Filter(s, S))

\* chars().skip(n).take(k).collect()
SkipTake(s, n, k) == SubSeq(s, n + 1, Min2(n + k, Len(s)))

\* (mutant: a line of 30 characters or more passes with exactly three quarters
\* of its characters alphanumeric)
IsMrzCandidateAtLeast(cleaned) ==
    /\ Len(cleaned) >= 20
    /\ \/ CountIn(cleaned, {"<"}) > 0 /\ CountIn(cleaned, Alphanumeric) > 15
       \/ Len(cleaned) >= 30 /\ 4 * CountIn(cleaned, Alphanumeric) >= 3 * Len(cleaned)

\* The test of extract_mrz_lines_from_text on a trimmed line (lines 341-361).
IsMrzCandidate(cleaned) ==
    LET char_count == Len(cleaned)
        lt_count == CountIn(cleaned, {"<"})
        alphanum_count == CountIn(cleaned, Alphanumeric)
    IN /\ char_count >= 20
       /\ \/ lt_count > 0 /\ alphanum_count > 15
          \/ char_count >= 30 /\ alphanum_count > (char_count * 3) \div 4

RECURSIVE InsertByFillers(_, _)
\* Places a line behind every line that has at least as many '<'.
InsertByFillers(sorted, line) ==
    IF sorted = <<>> THEN <<line>>
    ELSE IF CountIn(Head(sorted), {"<"}) >= CountIn(line, {"<"})
    THEN <<Head(sorted)>> \o InsertByFillers(Tail(sorted), line)
    ELSE <<line>> \o sorted

RECURSIVE SortByFillers(_)
\* candidate_lines.sort_by (stable): descending by the number of '<'.
SortByFillers(lines) ==
    IF lines = <<>> THEN <<>>
    ELSE InsertByFillers(SortByFillers(SubSeq(lines, 1, Len(lines) - 1)),
                         lines[Len(lines)])

extract_mrz_lines_from_text(txt) ==
    LET trimmed == [i \in 1..Len(txt) |-> Trim(txt[i])]
        candidate_lines == SelectSeq(trimmed, IsMrzCandidate)
    IN SubSeq(SortByFillers(candidate_lines), 1, Min2(3, Len(candidate_lines)))

RECURSIVE RunLen(_, _, _)
\* The number of consecutive characters of the set S that s holds from
\* position i (1-based) on.
RunLen(s, i, S) ==
    IF i <= Len(s) /\ s[i] \in S THEN 1 + RunLen(s, i + 1, S) ELSE 0

\* A regex match: the 1-based positions [from, to) of the text; NoMatch when
\* there is none.
NoMatch == [from |-> 0, to |-> 0]

Matched(s, m) == SubSeq(s, m.from, m.to - 1)

\* Regex::find: the match at the leftmost position that has one.  EndAt(i) is
\* the position behind the match that starts at i, 0 when none starts there.
Leftmost(s, EndAt(_)) ==
    IF \E i \in 1..Len(s) : EndAt(i) # 0
    THEN LET i == CHOOSE k \in 1..Len(s) :
                      EndAt(k) # 0 /\ \A j \in 1..(k - 1) : EndAt(j) = 0
         IN [from |-> i, to |-> EndAt(i)]
    ELSE NoMatch

\* P[<A-Z]{40,}
PPatternEnd(s, i) ==
    IF s[i] = "P" /\ RunLen(s, i + 1, Upper \cup {"<"}) >= 40
    THEN i + 1 + RunLen(s, i + 1, Upper \cup {"<"}) ELSE 0

\* [A-Z0-9]{8,9}[0-9][A-Z]{3}: nine leading characters are tried before eight.
NumPatternEnd(s, i) ==
    LET fits(k) == /\ RunLen(s, i, Upper \cup Digit) >= k
                   /\ i + k + 3 <= Len(s)
                   /\ s[i + k] \in Digit
                   /\ RunLen(s, i + k + 1, Upper) >= 3
    IN IF fits(9) THEN i + 13 ELSE IF fits(8) THEN i + 12 ELSE 0

RECURSIVE AltGroupsEnd(_, _, _)
\* (?:[0-9<][A-Z<]{10,}){2,} from position j with n groups already matched:
\* the position behind the last group, 0 when fewer than two groups fit.  A
\* group takes the longest run that lets the match succeed; from the second
\* group on nothing behind it can fail, so it takes the whole run.
AltGroupsEnd(s, j, n) ==
    LET run == RunLen(s, j + 1, Upper \cup {"<"})
        starts == j <= Len(s) /\ s[j] \in Digit \cup {"<"} /\ run >= 10
        fitting == {l \in 10..run : AltGroupsEnd(s, j + 1 + l, 1) # 0}
    IN IF ~starts THEN (IF n >= 2 THEN j ELSE 0)
       ELSE IF n >= 1 THEN AltGroupsEnd(s, j + 1 + run, n + 1)
       ELSE IF fitting = {} THEN 0
       ELSE AltGroupsEnd(s, j + 1 + (CHOOSE l \in fitting : \A o \in fitting : o <= l), 1)

\* [A-Z0-9]{6,12}(?:[0-9<][A-Z<]{10,}){2,}: the longest prefix of twelve to
\* six characters behind which the groups fit.
AltPatternEnd(s, i) ==
    LET head == Min2(12, RunLen(s, i, Upper \cup Digit))
        fitting == {k \in 6..head : AltGroupsEnd(s, i + k, 0) # 0}
    IN IF fitting = {} THEN 0
       ELSE AltGroupsEnd(s, i + (CHOOSE k \in fitting : \A o \in fitting : o <= k), 0)

RECURSIVE JoinWith(_, _)
\* The lines joined by the separator.
JoinWith(lines, sep) ==
    IF lines = <<>> THEN <<>>
    ELSE IF Len(lines) = 1 THEN lines[1]
    ELSE lines[1] \o sep \o JoinWith(Tail(lines), sep)

try_alternative_mrz_extraction(txt) ==
    LET cleaned_text == JoinWith(txt, <<" ">>)
        p_match == Leftmost(cleaned_text, LAMBDA i : PPatternEnd(cleaned_text, i))
        num_match == Leftmost(cleaned_text, LAMBDA i : NumPatternEnd(cleaned_text, i))
        alt_match == Leftmost(cleaned_text, LAMBDA i : AltPatternEnd(cleaned_text, i))
        matched == Matched(cleaned_text, alt_match)
        mid == ByteLen(matched) \div 2
        possible_lines ==
            SelectSeq(txt, LAMBDA line : /\ \E i \in 1..Len(line) : line[i] = "<"
                                         /\ \E i \in 1..Len(line) : is_alphanumeric(line[i])
                                         /\ ByteLen(line) > 20)
    IN IF p_match # NoMatch /\ num_match # NoMatch
       THEN <<Matched(cleaned_text, p_match), Matched(cleaned_text, num_match)>>
       ELSE IF alt_match # NoMatch
       THEN IF ByteLen(matched) > 40
            THEN <<SubSeq(matched, 1, mid), SubSeq(matched, mid + 1, Len(matched))>>
            ELSE <<matched>>
       ELSE possible_lines

\* The replacements of clean_mrz_line (lines 283-297), applied to one
\* character; no replacement produces a character that a later one replaces.
OcrReplacement(c) ==
    CASE c \in {"O", "Q", "D"} -> "0"
      [] c \in {"I", "L"} -> "1"
      [] c = "Z" -> "2"
      [] c = "S" -> "5"
      [] c = "B" -> "8"
      [] c = "G" -> "6"
      [] c \in {"_", "-", " ", "."} -> "<"
      [] OTHER -> c

\* \w of the regex crate.
IsWordChar(c) == is_alphanumeric(c) \/ c = "_"

\* \b between position i and position i + 1 of s (i in 0..Len(s)).
WordBoundary(s, i) ==
    (i >= 1 /\ i <= Len(s) /\ IsWordChar(s[i]))
        # (i + 1 >= 1 /\ i + 1 <= Len(s) /\ IsWordChar(s[i + 1]))

DateDigit == Digit \cup {"I", "O"}

\* \b([0-9IO]{2})[^0-9A-Z]?([0-9IO]{2})[^0-9A-Z]?([0-9IO]{2})\b tried at
\* position i: where the three pairs start and the position behind the match
\* (0 when it does not match).  A separator character is never a pair
\* character, so the optional separators leave no choice.
DateMatch(s, i) ==
    LET pair(j) == j + 1 <= Len(s) /\ s[j] \in DateDigit /\ s[j + 1] \in DateDigit
        sep(j) == IF j <= Len(s) /\ s[j] \notin Digit \cup Upper THEN 1 ELSE 0
        m == i + 2 + sep(i + 2)
        d == m + 2 + sep(m + 2)
    IN IF /\ WordBoundary(s, i - 1) /\ pair(i) /\ pair(m) /\ pair(d)
          /\ WordBoundary(s, d + 1)
       THEN [y |-> i, m |-> m, d |-> d, to |-> d + 2]
       ELSE [y |-> i, m |-> m, d |-> d, to |-> 0]

\* caps[n].replace('I', "1").replace('O', "0")
DatePart(s, j) ==
    LET fix(c) == IF c = "I" THEN "1" ELSE IF c = "O" THEN "0" ELSE c
    IN <<fix(s[j]), fix(s[j + 1])>>

RECURSIVE ReplaceDates(_, _)
\* date_regex.replace_all from position i on: each match becomes its six
\* digits.
ReplaceDates(s, i) ==
    IF i > Len(s) THEN <<>>
    ELSE LET found == DateMatch(s, i)
         IN IF found.to # 0
            THEN DatePart(s, found.y) \o DatePart(s, found.m) \o DatePart(s, found.d)
                 \o ReplaceDates(s, found.to)
            ELSE <<s[i]>> \o ReplaceDates(s, i + 1)

\* OcrProcessor::clean_mrz_line.  The number pattern replaces each match by
\* itself.
clean_mrz_line(line) ==
    LET upper == to_uppercase(line)
        replaced == [i \in 1..Len(upper) |-> OcrReplacement(upper[i])]
        dated == ReplaceDates(replaced, 1)
    IN Filter(dated, AsciiAlnum \cup {"<"})

\* .replace('<', "")
StripFillers(s) == SelectSeq(s, LAMBDA c : c # "<")

clean_document_number(number) ==
    StripFillers(Filter(number, Alphanumeric \cup {"<"}))

clean_name(name) ==
    LET cleaned == Trim([i \in 1..Len(name) |-> IF name[i] = "<" THEN " " ELSE name[i]])
    IN JoinWith(split_whitespace(cleaned), <<" ">>)

\* .chars().next().unwrap_or('0')
FirstCharOr0(s) == IF s = <<>> THEN "0" ELSE s[1]

\* The fields extract_mrz_internal reads from the two cleaned lines (lines
\* 130-249).
DecodeCleaned(line1, line2) ==
    LET names_iter == SplitOn(SkipTake(line1, 5, Len(line1)), {"<"})
        doc_number_end == IF Len(line2) >= 9 THEN 9 ELSE Len(line2)
        Behind(n, value, default) == IF Len(line2) > doc_number_end + n THEN value ELSE default
        gender == SkipTake(line2, doc_number_end + 11, 1)
        personal_num == SkipTake(line2, doc_number_end + 19,
                                 Len(line2) - (doc_number_end + 19 + 1))
    IN IF Len(line1) < 30 \/ Len(line2) < 30 THEN Err("MrzExtractionError")
       ELSE Ok([document_type |-> SkipTake(line1, 0, 2),
                issuing_country |-> SkipTake(line1, 2, 3),
                document_number |-> clean_document_number(SkipTake(line2, 0, doc_number_end)),
                surname |-> clean_name(names_iter[1]),
                given_names |-> IF Len(names_iter) >= 2 THEN clean_name(names_iter[2]) ELSE <<>>,
                nationality |-> Behind(1, SkipTake(line2, doc_number_end + 1, 3), <<>>),
                date_of_birth |-> Behind(4, SkipTake(line2, doc_number_end + 4, 6), <<>>),
                gender |-> Behind(11, IF gender = <<"<">> THEN <<"X">> ELSE gender, <<>>),
                date_of_expiry |-> Behind(12, SkipTake(line2, doc_number_end + 12, 6), <<>>),
                personal_number |->
                    IF /\ Len(line2) > doc_number_end + 19
                       /\ personal_num # <<>> /\ personal_num # Rep("<", 13)
                    THEN Some(StripFillers(personal_num))
                    ELSE None,
                check_digits |->
                    [document_number_check |->
                         FirstCharOr0(Behind(0, SkipTake(line2, doc_number_end, 1), <<>>)),
                     date_of_birth_check |->
                         FirstCharOr0(Behind(10, SkipTake(line2, doc_number_end + 10, 1), <<>>)),
                     date_of_expiry_check |->
                         FirstCharOr0(Behind(18, SkipTake(line2, doc_number_end + 18, 1), <<>>)),
                     personal_number_check |-> FirstCharOr0(<<>>),
                     composite_check |-> "0"],
                place_of_birth |-> None])

\* The body of extract_mrz_internal from the located lines on (lines 120-249).
DecodeLines(mrz_lines) ==
    IF Len(mrz_lines) < 2 THEN Err("MrzExtractionError")
    ELSE DecodeCleaned(clean_mrz_line(mrz_lines[1]), clean_mrz_line(mrz_lines[2]))

\* The lines extract_mrz_internal decodes (lines 110-118): the located ones,
\* the alternative extraction when none is located.
LocatedLines(txt) ==
    IF extract_mrz_lines_from_text(txt) = <<>>
    THEN try_alternative_mrz_extraction(txt)
    ELSE extract_mrz_lines_from_text(txt)

\* OcrProcessor::extract_mrz_internal on the text the OCR engine returned.
extract_mrz_internal(txt) == DecodeLines(LocatedLines(txt))

--------------------------------------------------------------------------
(* MRZ decoding: processing/ocr.rs (OcrProcessor::extract_mrz), the         *)
(* decoder that pads the lines instead of testing their length.  It slices  *)
(* by byte offset; a slice that splits a character panics.                  *)

Panic == [ok |-> FALSE, error |-> "panic"]

\* The number of characters of s in front of byte offset n; -1 when n is not
\* a character boundary of s.
CharsBefore(s, n) ==
    IF \E i \in 0..Len(s) : ByteLen(SubSeq(s, 1, i)) = n
    THEN CHOOSE i \in 0..Len(s) : ByteLen(SubSeq(s, 1, i)) = n
    ELSE -1

\* &s[a..b] panics.
SlicePanics(s, a, b) == CharsBefore(s, a) < 0 \/ CharsBefore(s, b) < 0

\* &s[a..b]
ByteSlice(s, a, b) == SubSeq(s, CharsBefore(s, a) + 1, CharsBefore(s, b))

to_ascii_uppercase(c) == IF c \in Lower THEN UpperSeq[IndexIn(c, LowerSeq)] ELSE c

\* ocr.rs clean_mrz_line (lines 347-359).
Ocr_clean_mrz_line(line) ==
    LET kept == SelectSeq(Trim(line), LAMBDA c : ~is_whitespace(c))
    IN [i \in 1..Len(kept) |-> to_ascii_uppercase(kept[i])]

clean_mrz_alphanumeric_field(field) ==
    LET fix(c) == CASE c \in {"I", "L", "|"} -> "1"
                    [] c = "Z" -> "2"
                    [] c = "S" -> "5"
                    [] c = "G" -> "6"
                    [] c = "B" -> "8"
                    [] OTHER -> c
    IN Filter([i \in 1..Len(field) |-> fix(to_ascii_uppercase(field[i]))], AsciiAlnum)

clean_mrz_alpha_field(field) ==
    LET letters == <<"O", "I", "Z", "E", "A", "S", "G", "T", "B">>
        fix(c) == IF c \in Digit \ {"9"} THEN letters[IndexIn(c, DigitSeq)] ELSE c
    IN [i \in 1..Len(field) |-> fix(to_ascii_uppercase(field[i]))]

\* format!("{:02}", n) and format!("{:04}", n)
TwoDigits(n) == <<DigitSeq[((n \div 10) % 10) + 1], DigitSeq[(n % 10) + 1]>>

FourDigits(n) == TwoDigits(n \div 100) \o TwoDigits(n % 100)

\* parse_visual_date on a string of digits (what parse_mrz_date passes): the
\* pattern with separators cannot match, the contiguous one takes the first
\* six to eight digits.
parse_visual_date(cleaned) ==
    LET digits == SubSeq(cleaned, 1, Min2(8, Len(cleaned)))
        yy == DigitsValue(Slice(digits, 0, 2))
        mm == DigitsValue(Slice(digits, 2, 4))
        dd == DigitsValue(Slice(digits, 4, 6))
        year == DigitsValue(Slice(digits, 0, 4))
        mm8 == DigitsValue(Slice(digits, 4, 6))
        dd8 == DigitsValue(Slice(digits, 6, 8))
    IN IF Len(digits) = 6 /\ dd \in 1..31 /\ mm \in 1..12
       THEN Some(TwoDigits(yy) \o TwoDigits(mm) \o TwoDigits(dd))
       ELSE IF Len(digits) = 8 /\ dd8 \in 1..31 /\ mm8 \in 1..12 /\ year \in 1900..2100
       THEN Some(TwoDigits(year % 100) \o TwoDigits(mm8) \o TwoDigits(dd8))
       ELSE None

\* The digit parse_mrz_date reads a character as (lines 600-613).
MrzDateDigit(c) ==
    CASE c \in {"O", "Q", "D", "C"} -> "0"
      [] c \in {"I", "L", "|", "!", "l", "i"} -> "1"
      [] c \in {"Z", "z"} -> "2"
      [] c \in {"E", "e"} -> "3"
      [] c \in {"A", "a"} -> "4"
      [] c \in {"S", "s"} -> "5"
      [] c \in {"G", "b"} -> "6"
      [] c \in {"T", "t"} -> "7"
      [] c \in {"B", "R"} -> "8"
      [] c \in {"g", "q"} -> "9"
      [] c \in Digit -> c
      [] OTHER -> "0"

parse_mrz_date(date_str) ==
    LET cleaned == [i \in 1..Len(date_str) |-> MrzDateDigit(date_str[i])]
        yy == DigitsValue(Slice(cleaned, 0, 2))
        mm == DigitsValue(Slice(cleaned, 2, 4))
        dd == DigitsValue(Slice(cleaned, 4, 6))
        month == IF mm < 1 \/ mm > 12 THEN 1 ELSE mm
        day == IF dd < 1 \/ dd > 31 THEN 1 ELSE dd
    IN IF Len(cleaned) >= 6
       THEN Some(TwoDigits(yy) \o TwoDigits(month) \o TwoDigits(day))
       ELSE parse_visual_date(cleaned)

\* "DD MM YYYY" of a parsed date, the century as extract_mrz assumes it.
DisplayDate(date, birth) ==
    LET year == DigitsValue(Slice(date, 0, 2))
        full_year == IF birth /\ year >= 30 THEN 1900 + year ELSE 2000 + year
    IN Slice(date, 4, 6) \o <<" ">> \o Slice(date, 2, 4) \o <<" ">> \o FourDigits(full_year)

RECURSIVE InsertByLength(_, _)
InsertByLength(sorted, line) ==
    IF sorted = <<>> THEN <<line>>
    ELSE IF ByteLen(Head(sorted)) >= ByteLen(line)
    THEN <<Head(sorted)>> \o InsertByLength(Tail(sorted), line)
    ELSE <<line>> \o sorted

RECURSIVE SortByLength(_)
\* candidates.sort_by (stable): descending by length.
SortByLength(lines) ==
    IF lines = <<>> THEN <<>>
    ELSE InsertByLength(SortByLength(SubSeq(lines, 1, Len(lines) - 1)),
                        lines[Len(lines)])

\* The two lines extract_mrz selects, before padding (lines 161-185).
OcrCandidates(txt) ==
    LET cleaned_candidates == [i \in 1..Len(txt) |-> Ocr_clean_mrz_line(txt[i])]
        filtered ==
            SelectSeq(cleaned_candidates,
                      LAMBDA l : /\ ByteLen(l) \in 40..44
                                 /\ \A k \in 1..Len(l) : l[k] \in MrzAlphabet)
        starts(i) == starts_with(cleaned_candidates[i], <<"P", "<">>)
        pos == CHOOSE i \in 1..Len(txt) : starts(i) /\ \A j \in 1..(i - 1) : ~starts(j)
        candidates ==
            IF Len(filtered) < 2 /\ (\E i \in 1..Len(txt) : starts(i)) /\ pos < Len(txt)
            THEN <<cleaned_candidates[pos], cleaned_candidates[pos + 1]>>
            ELSE filtered
    IN SubSeq(SortByLength(candidates), 1, Min2(2, Len(candidates)))

\* Truncated or padded with '<' to the 44 bytes of a TD3 line (lines 187-197).
FitToWidth(l) ==
    IF ByteLen(l) > mrz_chars_per_line THEN ByteSlice(l, 0, mrz_chars_per_line)
    ELSE l \o Rep("<", mrz_chars_per_line - ByteLen(l))

\* name_part.split("<<"): the first two parts.
SplitOnDoubleFiller(names) ==
    LET at(s, i) == i < Len(s) /\ s[i] = "<" /\ s[i + 1] = "<"
        first(s) == IF \E i \in 1..Len(s) : at(s, i)
                    THEN CHOOSE i \in 1..Len(s) : at(s, i) /\ \A j \in 1..(i - 1) : ~at(s, j)
                    ELSE Len(s) + 1
        rest == SubSeq(names, first(names) + 2, Len(names))
    IN <<SubSeq(names, 1, first(names) - 1), SubSeq(rest, 1, first(rest) - 1)>>

\* The name of a part: confusions corrected, fillers to spaces, trimmed.
OcrName(raw) ==
    IF raw = <<>> THEN UNKNOWN
    ELSE LET cleaned == clean_mrz_alpha_field(raw)
         IN Trim([i \in 1..Len(cleaned) |-> IF cleaned[i] = "<" THEN " " ELSE cleaned[i]])

\* line.chars().nth(n).unwrap_or('0')
NthOr0(line, n) == IF n + 1 <= Len(line) THEN line[n + 1] ELSE "0"

\* The fields extract_mrz reads from the two fitted lines and the two parsed
\* dates (lines 196-343).  After the padding both lines have 44 bytes, so the
\* length tests of lines 266-311 are decided: composite_check is '0'
\* (line2.len() > 44 is false).
OcrDecodeFields(mrz_lines, birth, expiry) ==
    LET line1 == mrz_lines[1]
        line2 == mrz_lines[2]
        name_parts == SplitOnDoubleFiller(ByteSlice(line1, 5, ByteLen(line1)))
        document_number == clean_mrz_alphanumeric_field(ByteSlice(line2, 0, 9))
    IN IF SlicePanics(line1, 0, 1) \/ SlicePanics(line1, 2, 5)
               \/ SlicePanics(line2, 0, 9) \/ SlicePanics(line2, 9, 12)
               \/ SlicePanics(line2, 20, 21)
       THEN Panic
       ELSE Ok([document_type |-> ByteSlice(line1, 0, 1),
                issuing_country |-> clean_mrz_alpha_field(ByteSlice(line1, 2, 5)),
                surname |-> OcrName(name_parts[1]),
                given_names |-> OcrName(name_parts[2]),
                document_number |-> IF document_number = <<>> THEN UNKNOWN
                                    ELSE document_number,
                nationality |-> clean_mrz_alpha_field(ByteSlice(line2, 9, 12)),
                date_of_birth |-> DisplayDate(Unwrap(birth), TRUE),
                gender |-> ByteSlice(line2, 20, 21),
                date_of_expiry |-> DisplayDate(Unwrap(expiry), FALSE),
                personal_number |-> None,
                check_digits |->
                    [document_number_check |-> NthOr0(line2, 9),
                     date_of_birth_check |-> NthOr0(line2, 19),
                     date_of_expiry_check |-> NthOr0(line2, 27),
                     personal_number_check |-> NthOr0(line2, 42),
                     composite_check |-> "0"],
                document_format |-> Some("TD3"),
                optional_data |-> None,
                raw_mrz_lines |-> mrz_lines])

\* extract_mrz from the fitted lines on: the two dates are parsed first, a
\* date that does not parse ends the extraction (lines 218-270).
OcrDecodeLines(mrz_lines) ==
    IF Len(mrz_lines) < 2 THEN Err("MrzExtractionError")
    ELSE IF SlicePanics(mrz_lines[2], 13, 19) THEN Panic
    ELSE IF is_none(parse_mrz_date(ByteSlice(mrz_lines[2], 13, 19)))
    THEN Err("MrzExtractionError")
    ELSE IF SlicePanics(mrz_lines[2], 21, 27) THEN Panic
    ELSE IF is_none(parse_mrz_date(ByteSlice(mrz_lines[2], 21, 27)))
    THEN Err("MrzExtractionError")
    ELSE OcrDecodeFields(mrz_lines, parse_mrz_date(ByteSlice(mrz_lines[2], 13, 19)),
                         parse_mrz_date(ByteSlice(mrz_lines[2], 21, 27)))

\* extract_mrz from the candidate lines on: each is padded or cut to 44.
OcrDecodeCandidates(raw_lines) ==
    IF \E i \in 1..Len(raw_lines) :
           ByteLen(raw_lines[i]) > mrz_chars_per_line
               /\ SlicePanics(raw_lines[i], 0, mrz_chars_per_line)
    THEN Panic
    ELSE OcrDecodeLines([i \in 1..Len(raw_lines) |-> FitToWidth(raw_lines[i])])

\* OcrProcessor::extract_mrz of ocr.rs on the text the OCR engine returned.
Ocr_extract_mrz(txt) == OcrDecodeCandidates(OcrCandidates(txt))

--------------------------------------------------------------------------
(* OCR texts of the decoding.  TD3 line pairs built from three first lines  *)
(* and from second lines with right and wrong check characters, and texts   *)
(* that exercise the locator, the alternative extraction and the length     *)
(* check.                                                                   *)

PadFillers(s) == s \o Rep("<", mrz_chars_per_line - Len(s))

ExampleLine1 == PadFillers(<<"P", "<", "U", "S", "A", "S", "M", "I", "T", "H", "<", "<", "J", "O", "H", "N", "<", "J", "A", "M", "E", "S">>)

SpecimenLine1 == PadFillers(<<"P", "<", "U", "T", "O", "E", "R", "I", "K", "S", "S", "O", "N", "<", "<", "A", "N", "N", "A", "<", "M", "A", "R", "I", "A">>)

PlainLine1 == PadFillers(<<"P", "<", "F", "R", "A", "M", "A", "R", "T", "E", "N", "<", "<", "A", "N", "N", "E", "<", "M", "A", "R", "T", "H", "A">>)

\* A first line with fewer than 16 letters.
ShortNameLine1 == PadFillers(<<"P", "<", "F", "R", "A", "M", "A", "R", "X", "<", "<", "E", "V", "A">>)

\* A first line whose names leave room for three '<' only, fewer than the
\* empty personal number of a second line has.
LongNameLine1 ==
    <<"P", "<", "F", "R", "A", "V", "A", "N", "D", "E", "R", "B", "I", "L", "T", "H", "O", "H", "E", "N", "Z", "O">>
    \o <<"L", "L", "E", "R", "N", "<", "<", "M", "A", "X", "I", "M", "I", "L", "I", "A", "N", "A", "L", "E", "X", "A">>

ExampleLine2 ==
    <<"1", "2", "3", "4", "5", "6", "7", "8", "9", "0", "U", "S", "A", "8", "0", "0", "1", "0", "1", "9", "M", "2", "5", "0", "1", "0", "1", "9">>
    \o Rep("<", 14) \o <<"0", "0">>

\* The example with the check characters its fields have.
ExampleLine2Checked ==
    <<"1", "2", "3", "4", "5", "6", "7", "8", "9", "7", "U", "S", "A", "8", "0", "0", "1", "0", "1", "4", "M", "2", "5", "0", "1", "0", "1", "7">>
    \o Rep("<", 14) \o <<"0", "0">>

SpecimenLine2 ==
    <<"L", "8", "9", "8", "9", "0", "2", "C", "3", "6", "U", "T", "O", "7", "4", "0", "8", "1", "2", "2", "F", "1", "2", "0", "4", "1", "5", "9">>
    \o <<"Z", "E", "1", "8", "4", "2", "2", "6", "B", "<", "<", "<", "<", "<", "1", "0">>

PlainLine2 ==
    <<"A", "C", "1", "2", "3", "4", "5", "6", "7", "4", "F", "R", "A", "8", "5", "0", "3", "1", "2", "7", "F", "3", "0", "0", "1", "1", "5", "6">>
    \o Rep("<", 14) \o <<"0", "8">>

\* A document number with a letter that clean_mrz_line replaces.
RemappedLine2 ==
    <<"A", "B", "1", "2", "3", "4", "5", "6", "7", "1", "F", "R", "A", "8", "5", "0", "3", "1", "2", "7", "F", "3", "0", "0", "1", "1", "5", "6">>
    \o Rep("<", 14) \o <<"0", "4">>

\* Letters where the dates are, and the filler for the gender.
BadDatesLine2 ==
    <<"A", "C", "1", "2", "3", "4", "5", "6", "7", "4", "F", "R", "A", "8", "5", "A", "B", "1", "2", "7", "<", "3", "0", "X", "Y", "1", "5", "6">>
    \o Rep("<", 14) \o <<"0", "0">>

\* The 1-based positions of the five check characters of a TD3 line 2.
CheckPositions == {10, 20, 28, 43, 44}

NextDigit(c) == IF c \in Digit THEN DigitSeq[(IndexIn(c, DigitSeq) % 10) + 1] ELSE "1"

WrongCheck(line, p) == [line EXCEPT ![p] = NextDigit(line[p])]

Line2Variants(line) == {line} \cup {WrongCheck(line, p) : p \in CheckPositions}

Line1Inputs == {ExampleLine1, SpecimenLine1, PlainLine1}

Line2Inputs ==
    Line2Variants(SpecimenLine2) \cup Line2Variants(PlainLine2)
    \cup {ExampleLine2, ExampleLine2Checked, RemappedLine2, BadDatesLine2}

Td3Texts == {<<l1, l2>> : l1 \in Line1Inputs, l2 \in Line2Inputs}

HeaderLine == <<"P", "A", "S", "S", "P", "O", "R", "T">>

\* A line with as many fillers as a TD3 line 1 can have, and 16 letters.
FillerDenseLine == Rep("<", 28) \o <<"A", "C", "E", "F", "H", "J", "K", "M", "N", "P", "R", "T", "U", "V", "W", "X">>

\* 44 characters, 15 of them outside the MRZ alphabet.
StarredLine2 == SubSeq(PlainLine2, 1, 29) \o Rep("*", 15)

\* 30 characters each; the second holds digit pairs separated by fillers.
ShortLine1 == SubSeq(PlainLine1, 1, 30)

SeparatedPairsLine2 ==
    <<"8", "5", "0", "3", "1", "2", "7", "F", "3", "0", "0", "1", "1", "5", "6", "F", "R", "A", "<", "1", "2", "<", "3", "4", "<", "5", "6">>
    \o Rep("<", 3)

\* 43 characters in 44 bytes: a two-byte character in the date of birth,
\* respectively across the end of the document number.
AccentedDateLine2 ==
    SubSeq(PlainLine2, 1, 15) \o <<"é">> \o SubSeq(PlainLine2, 18, 44)

AccentedNumberLine2 ==
    SubSeq(PlainLine2, 1, 8) \o <<"é">> \o SubSeq(PlainLine2, 11, 44)

\* Lines the locator does not accept.
SparseLine1 == <<"P", "<", "F", "R", "A">> \o Rep("<", 39)

NumberShapedLine == SubSeq(PlainLine2, 1, 13)

MergedLine ==
    <<"A", "C", "E", "F", "H", "J", "0">> \o Rep("<", 30) \o <<"0">> \o Rep("<", 30)

OtherTexts ==
    {<<>>, <<PlainLine1>>, <<HeaderLine, PlainLine1>>,
     <<PlainLine2, PlainLine1>>,
     <<LongNameLine1, PlainLine2>>,
     <<ShortNameLine1, PlainLine2>>,
     <<HeaderLine, SpecimenLine1, SpecimenLine2>>,
     <<<<" ", " ">> \o PlainLine1 \o <<" ">>, <<"\t">> \o PlainLine2>>,
     <<[i \in 1..44 |-> IF PlainLine1[i] = "<" THEN " " ELSE PlainLine1[i]],
       [i \in 1..44 |-> IF PlainLine2[i] \in Upper
                        THEN LowerSeq[IndexIn(PlainLine2[i], UpperSeq)] ELSE PlainLine2[i]]>>,
     <<PlainLine1, PlainLine2, FillerDenseLine>>,
     <<PlainLine1, StarredLine2>>,
     <<ShortLine1, SeparatedPairsLine2>>,
     <<ShortLine1, SubSeq(PlainLine2, 1, 30)>>,
     <<SubSeq(PlainLine1, 1, 25), SubSeq(PlainLine2, 1, 25)>>,
     <<SparseLine1, NumberShapedLine>>,
     <<SparseLine1, SparseLine1>>,
     <<<<"A">> \o Rep("<", 24)>>,
     <<PlainLine1, AccentedDateLine2>>,
     <<PlainLine1, AccentedNumberLine2>>,
     <<MergedLine>>,
     <<SubSeq(MergedLine, 1, 40)>>}

DecodeTexts == Td3Texts \cup OtherTexts

DecodeVisualInputs ==
    {ValidateVisualBase, Blank(ValidateVisualBase, DOMAIN ValidateVisualBase)}

DecodeEnvInputs ==
    [security_features : {AllSecurityFeatures},
     biometric_data : {GoodBiometricData},
     use_ml_validation : BOOLEAN,
     today : {<<2026, 11, 3>>}]

--------------------------------------------------------------------------
(* Specification of the decoding.  PassportValidator::validate              *)
(* (passport_validator.rs 34-67) from the point where the OCR engine has    *)
(* returned the text: extract_mrz decodes it, an Err is returned at once    *)
(* (the ? of line 41), otherwise the visual record is reconciled and        *)
(* validate_all runs.                                                       *)

InitDecode ==
    /\ pc = "ocr_text"
    /\ text \in DecodeTexts
    /\ visual \in DecodeVisualInputs
    /\ env \in DecodeEnvInputs
    /\ mrz = Unused
    /\ corrected = Unused
    /\ recorrected = Unused
    /\ outcome = Unused

\* OcrProcessor::extract_mrz.
ExtractMrz ==
    /\ pc = "ocr_text"
    /\ \E extracted \in {extract_mrz_internal(text)} :
          IF extracted.ok
          THEN /\ mrz' = extracted.mrz
               /\ outcome' = outcome
               /\ pc' = "decoded"
          ELSE /\ mrz' = mrz
               /\ outcome' = extracted
               /\ pc' = "extraction_failed"
    /\ UNCHANGED <<text, visual, env, corrected, recorrected>>

\* Steps 4b and 6 of validate on the decoded record.
ValidateDecoded ==
    /\ pc = "decoded"
    /\ corrected' = CorrectionRun(mrz, visual)
    /\ outcome' = ValidateAllOutcome(mrz, env.security_features,
                                     correct_visual_data(mrz, visual), env.biometric_data)
    /\ pc' = "decode_validated"
    /\ UNCHANGED <<text, mrz, visual, env, recorrected>>

\* OcrProcessor::extract_mrz of ocr.rs on the same text; a panic ends the run.
OcrExtractMrz ==
    /\ pc = "ocr_text"
    /\ \E extracted \in {Ocr_extract_mrz(text)} :
          IF extracted.ok
          THEN /\ mrz' = extracted.mrz
               /\ outcome' = outcome
               /\ pc' = "ocr_decoded"
          ELSE /\ mrz' = mrz
               /\ outcome' = extracted
               /\ pc' = IF extracted = Panic THEN "ocr_panicked" ELSE "ocr_extraction_failed"
    /\ UNCHANGED <<text, visual, env, corrected, recorrected>>

NextDecode == ExtractMrz \/ ValidateDecoded \/ OcrExtractMrz

SpecDecode == InitDecode /\ [][NextDecode]_vars

--------------------------------------------------------------------------
(* Claims about the decoding (checked under SpecDecode) *)

\* A TD3 line pair as printed: two lines of 44 MRZ characters, the first one
\* of a passport.
IsTd3Pair(lines) ==
    /\ Len(lines) = 2
    /\ \A i \in 1..2 : /\ Len(lines[i]) = mrz_chars_per_line
                       /\ \A k \in 1..Len(lines[i]) : lines[i][k] \in MrzAlphabet
    /\ lines[1][1] = "P"

CheckedFields == {"document_number", "date_of_birth", "date_of_expiry", "personal_number"}

CheckedItems == CheckedFields \cup {"composite"}

\* What a check character of a TD3 line 2 covers (ICAO Doc 9303, 0-based
\* positions as in the specification).
ItemField(line2, item) ==
    CASE item = "document_number" -> Slice(line2, 0, 9)
      [] item = "date_of_birth" -> Slice(line2, 13, 19)
      [] item = "date_of_expiry" -> Slice(line2, 21, 27)
      [] item = "personal_number" -> Slice(line2, 28, 42)
      [] item = "composite" ->
             Slice(line2, 0, 10) \o Slice(line2, 13, 20) \o Slice(line2, 21, 43)

\* The check character embedded in the line for the item.
EmbeddedCheck(line2, item) ==
    CASE item = "document_number" -> line2[10]
      [] item = "date_of_birth" -> line2[20]
      [] item = "date_of_expiry" -> line2[28]
      [] item = "personal_number" -> line2[43]
      [] item = "composite" -> line2[44]

CheckMatches(line2, item) ==
    EmbeddedCheck(line2, item) = IcaoCheckDigit(ItemField(line2, item))

\* A well-formed TD3 text: the pair as printed, every check character right.
WellFormedTd3(txt) ==
    IsTd3Pair(txt) /\ \A item \in CheckedItems : CheckMatches(txt[2], item)

\* The value and the check character decoding stored for a field.
DecodedValue(m, field) ==
    IF field = "personal_number"
    THEN (IF is_some(m.personal_number) THEN Unwrap(m.personal_number) ELSE <<>>)
    ELSE m[field]

DecodedCheck(m, item) ==
    CASE item = "document_number" -> m.check_digits.document_number_check
      [] item = "date_of_birth" -> m.check_digits.date_of_birth_check
      [] item = "date_of_expiry" -> m.check_digits.date_of_expiry_check
      [] item = "personal_number" -> m.check_digits.personal_number_check
      [] item = "composite" -> m.check_digits.composite_check

\* C6: checksum round trip: for a well-formed TD3 line pair, the check digit
\* recomputed from each decoded field value (document_number, date_of_birth,
\* date_of_expiry, personal_number) is the check character decoding stored
\* for the field, and that is the character embedded in the line.
C6_ChecksumRoundTrip ==
    WellFormedTd3(text) /\ pc = "decoded" =>
        \A field \in CheckedFields :
            /\ calculate_check_digit(DecodedValue(mrz, field)) = DecodedCheck(mrz, field)
            /\ DecodedCheck(mrz, field) = EmbeddedCheck(text[2], field)

\* The name field of line 1 split on its first "<<".
NameParts(line1) ==
    LET names == Slice(line1, 5, Len(line1))
        at(i) == i < Len(names) /\ names[i] = "<" /\ names[i + 1] = "<"
    IN IF \E i \in 1..Len(names) : at(i)
       THEN LET k == CHOOSE i \in 1..Len(names) : at(i) /\ \A j \in 1..(i - 1) : ~at(j)
            IN <<SubSeq(names, 1, k - 1), SubSeq(names, k + 2, Len(names))>>
       ELSE <<names, <<>>>>

\* '<' turned into a space, runs of spaces collapsed, no space at the ends.
NameText(part) ==
    JoinWith(split_whitespace([i \in 1..Len(part) |->
                                   IF part[i] = "<" THEN " " ELSE part[i]]), <<" ">>)

\* C10: decoding a well-formed TD3 line pair returns each field as the
\* characters at its ICAO position, the names split on the first "<<" of the
\* name field (the filler of the gender position reads X).
C10_FieldsAtIcaoPositions ==
    IsTd3Pair(text) /\ pc = "decoded" =>
        /\ mrz.document_type = Slice(text[1], 0, 1)
        /\ mrz.issuing_country = Slice(text[1], 2, 5)
        /\ mrz.surname = NameText(NameParts(text[1])[1])
        /\ mrz.given_names = NameText(NameParts(text[1])[2])
        /\ mrz.nationality = Slice(text[2], 10, 13)
        /\ mrz.date_of_birth = Slice(text[2], 13, 19)
        /\ mrz.gender = (IF text[2][21] = "<" THEN <<"X">> ELSE <<text[2][21]>>)
        /\ mrz.date_of_expiry = Slice(text[2], 21, 27)

\* The issue that reports a wrong check character (the messages of
\* MrzValidator::validate; it has none for the composite).
CheckIssue(item) ==
    CASE item = "document_number" ->
             ValidationIssue("Mrz", "Document number check digit is invalid")
      [] item = "date_of_birth" ->
             ValidationIssue("Mrz", "Date of birth check digit is invalid")
      [] item = "date_of_expiry" ->
             ValidationIssue("Mrz", "Date of expiry check digit is invalid")
      [] item = "personal_number" ->
             ValidationIssue("Mrz", "Personal number check digit is invalid")
      [] item = "composite" ->
             ValidationIssue("Mrz", "Composite check digit is invalid")

\* The lines the decoder works on are a TD3 pair.
LocatedTd3Pair ==
    Len(LocatedLines(text)) >= 2 /\ IsTd3Pair(SubSeq(LocatedLines(text), 1, 2))

\* C8: a check-digit mismatch is never fatal: for located TD3 lines decoding
\* returns the record whatever the check characters are, validation returns
\* a result, and each check character that does not match the computed digit
\* appears as a ValidationIssue of that result.
C8_MismatchNeverFatal ==
    LocatedTd3Pair =>
        /\ pc # "extraction_failed"
        /\ pc = "decode_validated" =>
               \A item \in CheckedItems :
                   ~CheckMatches(LocatedLines(text)[2], item) =>
                       /\ CheckIssue(item) \in Range(outcome.result.issues)
                       /\ CheckIssue(item) \in Range(outcome.result.mrz_validation.issues)

\* C9: decoding fails with MrzExtractionError only if fewer than two lines
\* were located or one of the two located lines has fewer than 30
\* characters; nothing else in the text makes it fail.  Stated for both
\* decoders, each with the lines it selects.
C9_FailsOnlyOnMissingOrShortLines ==
    /\ pc = "extraction_failed" =>
           /\ outcome = Err("MrzExtractionError")
           /\ \/ Len(LocatedLines(text)) < 2
              \/ \E i \in 1..2 : Len(LocatedLines(text)[i]) < 30
    /\ pc \in {"ocr_extraction_failed", "ocr_panicked"} =>
           /\ outcome = Err("MrzExtractionError")
           /\ \/ Len(OcrCandidates(text)) < 2
              \/ \E i \in 1..2 : Len(OcrCandidates(text)[i]) < 30

--------------------------------------------------------------------------
(* Claims about the compatibility predicates and the resolution policy of  *)
(* the reconciliation (checked under SpecReconcile)                        *)

\* A visual date written with two slashes: two digits, two digits, four digits.
IsSlashDate(d) ==
    /\ Len(d) = 10
    /\ d[3] = "/" /\ d[6] = "/"
    /\ \A i \in {1, 2, 4, 5, 7, 8, 9, 10} : d[i] \in Digit

\* The dates <<YY, MM, DD>> a visual date denotes under the readings YYMMDD,
\* DD/MM/YYYY and MM/DD/YYYY; the year is kept modulo 100.
DateReadings(d) ==
    IF IsMrzDate(d)
    THEN {<<SubSeq(d, 1, 2), SubSeq(d, 3, 4), SubSeq(d, 5, 6)>>}
    ELSE IF IsSlashDate(d)
    THEN {<<SubSeq(d, 9, 10), SubSeq(d, 4, 5), SubSeq(d, 1, 2)>>,
          <<SubSeq(d, 9, 10), SubSeq(d, 1, 2), SubSeq(d, 4, 5)>>}
    ELSE {}

\* C11: a 6-digit MRZ date and a visual date written as YYMMDD, DD/MM/YYYY or
\* MM/DD/YYYY are judged compatible if and only if, under one of these
\* readings, day and month agree and the years agree modulo 100.
C11_DatesCompatibleIffSameDate ==
    \A f \in DateFields :
        (IsMrzDate(mrz[f]) /\ DateReadings(visual[f]) # {}) =>
            (dates_compatible(mrz[f], visual[f])
                 <=> <<SubSeq(mrz[f], 1, 2), SubSeq(mrz[f], 3, 4), SubSeq(mrz[f], 5, 6)>>
                         \in DateReadings(visual[f]))


\* The fields correct_visual_data reconciles from the MRZ record.
ReconciledFields == StringFields \cup NameFields \cup DateFields \cup {"personal_number"}

\* C12 as stated: whenever the visual value of a reconciled field is empty,
\* the reconciled value is, character for character, the MRZ value.
C12_EmptyVisualTakesMrzValue ==
    pc = "reconciled" =>
        \A f \in ReconciledFields :
            visual[f] = <<>> => corrected.corrected[f] = mrz[f]

\* C12: whenever the visual value of a reconciled field is empty, the
\* reconciled value is the MRZ value; for the two date fields it is the MRZ
\* date rendered by format_mrz_date (DD/MM/YYYY for a 6-digit MRZ date, the
\* MRZ string itself otherwise).
C12_EmptyVisualTakesMrzValueDatesFormatted ==
    pc = "reconciled" =>
        \A f \in ReconciledFields :
            visual[f] = <<>> =>
                corrected.corrected[f]
                    = IF f \in DateFields THEN format_mrz_date(mrz[f]) ELSE mrz[f]

C12_Witness ==
    /\ pc = "reconciled"
    /\ visual.date_of_birth = <<>>
    /\ mrz.date_of_birth = <<"8", "0", "0", "1", "0", "1">>
    /\ corrected.corrected.date_of_birth
           = <<"0", "1", "/", "0", "1", "/", "1", "9", "8", "0">>


\* The compatibility predicate correct_visual_data applies to each field.
FieldCompatible(f, m, v) ==
    CASE f = "document_number" -> fields_match(m[f], v[f])
      [] f = "personal_number" -> fields_match(Unwrap(m[f]), Unwrap(v[f]))
      [] f \in {"nationality", "gender"} -> fields_match_case_insensitive(m[f], v[f])
      [] f \in DateFields -> dates_compatible(m[f], v[f])
      [] f \in NameFields -> names_compatible(m[f], v[f])

\* Both records hold a value for the field.
BothPresent(f, m, v) == m[f] # <<>> /\ v[f] # <<>>

\* The fields whose mismatching visual value is always overwritten.
OverwrittenFields == StringFields \cup DateFields \cup {"personal_number"}

\* C13 as stated: for document_number, personal_number, gender, nationality,
\* date_of_birth and date_of_expiry, whenever both values are present and
\* incompatible, the reconciled value is, character for character, the MRZ value.
C13_IncompatibleTakesMrzValue ==
    pc = "reconciled" =>
        \A f \in OverwrittenFields :
            (BothPresent(f, mrz, visual) /\ ~FieldCompatible(f, mrz, visual))
                => corrected.corrected[f] = mrz[f]

\* C13: for document_number, personal_number, gender, nationality,
\* date_of_birth and date_of_expiry, whenever both values are present and
\* incompatible, the reconciled value is the MRZ value; for the two date
\* fields it is the MRZ date rendered by format_mrz_date.
C13_IncompatibleTakesMrzValueDatesFormatted ==
    pc = "reconciled" =>
        \A f \in OverwrittenFields :
            (BothPresent(f, mrz, visual) /\ ~FieldCompatible(f, mrz, visual))
                => corrected.corrected[f]
                       = IF f \in DateFields THEN format_mrz_date(mrz[f]) ELSE mrz[f]

C13_Witness ==
    /\ pc = "reconciled"
    /\ mrz.document_number = <<"A">>
    /\ visual.document_number = <<"A", "A">>
    /\ corrected.corrected.document_number = <<"A">>


\* Compatibility as the policy words it: equal alphanumeric-only uppercased
\* forms for identifiers, containment for names, one of the readings YYMMDD,
\* DD/MM/YYYY, MM/DD/YYYY with the same day, month and year modulo 100 for dates.
StatedCompatible(f, m, v) ==
    CASE f \in StringFields -> fields_match_case_insensitive(m[f], v[f])
      [] f = "personal_number" ->
             fields_match_case_insensitive(Unwrap(m[f]), Unwrap(v[f]))
      [] f \in NameFields -> names_compatible(m[f], v[f])
      [] f \in DateFields ->
             /\ IsMrzDate(m[f])
             /\ <<SubSeq(m[f], 1, 2), SubSeq(m[f], 3, 4), SubSeq(m[f], 5, 6)>>
                    \in DateReadings(v[f])

\* C14: for every reconciled field, whenever the MRZ and visual values are
\* both present and compatible (equal alphanumeric-uppercased forms, substring
\* for names, same day/month and year modulo 100 for dates), the reconciled
\* value is the visual value, character for character unchanged.
C14_CompatibleKeepsVisual ==
    pc = "reconciled" =>
        \A f \in ReconciledFields :
            (BothPresent(f, mrz, visual) /\ StatedCompatible(f, mrz, visual))
                => corrected.corrected[f] = visual[f]

\* The frame property under the predicates the code applies: a value the code
\* judges compatible is kept as it is.
C14_CodeCompatibleKeepsVisual ==
    pc = "reconciled" =>
        \A f \in ReconciledFields :
            (BothPresent(f, mrz, visual) /\ FieldCompatible(f, mrz, visual))
                => corrected.corrected[f] = visual[f]


\* C15: the audit map written next to the new visual record has an entry for
\* every field whose value differs between the input visual record and the
\* output record, and no entry for a field whose value did not change.
C15_AuditEntryIffChanged ==
    pc = "reconciled" =>
        \A f \in DOMAIN visual :
            f \in Keys(corrected.corrections) <=> corrected.corrected[f] # visual[f]

\* One half of it: every field whose value changed has an entry.
C15_ChangedFieldHasEntry ==
    pc = "reconciled" =>
        \A f \in DOMAIN visual :
            corrected.corrected[f] # visual[f] => f \in Keys(corrected.corrections)


--------------------------------------------------------------------------
(* Claims about the overall decision and the consistency score (checked    *)
(* under SpecConfidence)                                                   *)

\* The overall score as the policy states it: weights 0.30, 0.25 and 0.25 on
\* the MRZ, visual and consistency scores, and the remaining 0.20 divided
\* between the security score (security_weight) and the fraud score.
StatedOverall(c, security_weight) ==
    FSum(<<FMul(c.mrz_confidence, Hundredths(30)),
           FMul(c.visual_confidence, Hundredths(25)),
           FMul(c.consistency_confidence, Hundredths(25)),
           FMul(c.security_feature_confidence, security_weight),
           FMul(c.fraud_detection_confidence, FSub(Hundredths(20), security_weight))>>)

\* Every division of the remaining weight, in hundredths.
RestSplits == {Hundredths(k) : k \in 0..20}

\* C16: the validator returns is_valid = true if and only if the overall
\* score, the weighted sum of the returned sub-scores (mrz 0.30, visual 0.25,
\* consistency 0.25, the rest on security and fraud, however divided), is at
\* least 0.75.
C16_ValidIffWeightedSumReachesThreshold ==
    pc = "validated" =>
        \E w \in RestSplits :
            outcome.result.is_valid
                <=> FLe(Threshold, StatedOverall(outcome.result.confidence, w))

\* The same for the validator the crate exports (ml/mod.rs 13), that of
\* ml/simple_validator.rs, alone.
C16_SimpleValidIffWeightedSum ==
    (pc = "validated" /\ outcome.validator = "simple") =>
        \E w \in RestSplits :
            outcome.result.is_valid
                <=> FLe(Threshold, StatedOverall(outcome.result.confidence, w))


\* The visual date, written DD/MM/YYYY, is the calendar date of the 6-digit
\* MRZ date (year modulo 100).
SameDateWritten(mrz_date, visual_date) ==
    /\ IsMrzDate(mrz_date)
    /\ IsSlashDate(visual_date)
    /\ SubSeq(visual_date, 1, 2) = SubSeq(mrz_date, 5, 6)
    /\ SubSeq(visual_date, 4, 5) = SubSeq(mrz_date, 3, 4)
    /\ SubSeq(visual_date, 9, 10) = SubSeq(mrz_date, 1, 2)

\* The two records carry the same document number, surname and dates, and the
\* remaining compared field, gender, does not differ.
RecordsAgree(m, v) ==
    /\ m.document_number # <<>> /\ m.document_number = v.document_number
    /\ m.surname # <<>> /\ m.surname = v.surname
    /\ SameDateWritten(m.date_of_birth, v.date_of_birth)
    /\ SameDateWritten(m.date_of_expiry, v.date_of_expiry)
    /\ (m.gender = <<>> \/ v.gender = <<>> \/ m.gender = v.gender)

\* C17: when the MRZ and visual records carry the same document number, the
\* same surname and the same dates of birth and expiry (MRZ as YYMMDD, visual
\* as DD/MM/YYYY) and no other compared field differs, consistency_confidence
\* equals exactly 1.0.
C17_AgreeingRecordsFullyConsistent ==
    (pc = "validated" /\ outcome.validator = "simple" /\ RecordsAgree(mrz, visual))
        => outcome.result.confidence.consistency_confidence = One


--------------------------------------------------------------------------
(* Claims about the dates of a decoded record (checked under SpecDecode)   *)

\* C18: in every MRZ record produced by decoding, date_of_birth and
\* date_of_expiry are each exactly 6 ASCII digits, whatever characters the
\* located lines hold at the date positions.
C18_DecodedDatesSixDigits ==
    pc \in {"decoded", "ocr_decoded"} =>
        IsMrzDate(mrz.date_of_birth) /\ IsMrzDate(mrz.date_of_expiry)

\* The same for the decoder the crate builds (processing/enhanced_ocr.rs) alone.
C18_EnhancedDatesSixDigits ==
    pc = "decoded" => IsMrzDate(mrz.date_of_birth) /\ IsMrzDate(mrz.date_of_expiry)


--------------------------------------------------------------------------
(* Visual date extraction: processing/enhanced_ocr.rs (DATE_PATTERNS,       *)
(* DOB_PATTERNS, extract_dob_from_text, extract_date_from_text,             *)
(* normalize_date).  The extractors work on one line of the OCR text.       *)

LowerChar(c) ==
    IF c \in Upper THEN LowerSeq[IndexIn(c, UpperSeq)]
    ELSE IF c = "É" THEN "é" ELSE c

to_lowercase(s) == [i \in 1..Len(s) |-> LowerChar(s[i])]

\* str::parse::<u8>() and parse::<u16>(); a failed parse is -1.
ParseU8(s) == IF ParseNum(s) \in 0..255 THEN ParseNum(s) ELSE -1

ParseU16(s) == IF ParseNum(s) \in 0..65535 THEN ParseNum(s) ELSE -1

\* .unwrap_or(default) of a parse.
ParsedOr(parsed, default) == IF parsed < 0 THEN default ELSE parsed

RECURSIVE ToDigits(_)
\* The decimal digits of a natural number.
ToDigits(n) ==
    IF n < 10 THEN <<DigitSeq[n + 1]>>
    ELSE ToDigits(n \div 10) \o <<DigitSeq[(n % 10) + 1]>>

\* {:0w}: zero-padded to at least w digits.
ZeroPad(n, w) == Rep("0", w - Len(ToDigits(n))) \o ToDigits(n)

\* format!("{:02}/{:02}/{:04}", day, month, year)
FormatDate(day, month, year) ==
    ZeroPad(day, 2) \o <<"/">> \o ZeroPad(month, 2) \o <<"/">> \o ZeroPad(year, 4)

\* The month names of normalize_date (lines 769-782), by month number.
MonthNames ==
    << {<<"j", "a", "n">>, <<"j", "a", "n", "u", "a", "r", "y">>,
        <<"j", "a", "n", "v", "i", "e", "r">>, <<"e", "n", "e", "r", "o">>,
        <<"j", "a", "n", "u", "a", "r">>},
       {<<"f", "e", "b">>, <<"f", "e", "b", "r", "u", "a", "r", "y">>,
        <<"f", "é", "v", "r", "i", "e", "r">>,
        <<"f", "e", "b", "r", "e", "r", "o">>,
        <<"f", "e", "b", "r", "u", "a", "r">>},
       {<<"m", "a", "r">>, <<"m", "a", "r", "c", "h">>,
        <<"m", "a", "r", "s">>, <<"m", "a", "r", "z", "o">>,
        <<"m", "ä", "r", "z">>},
       {<<"a", "p", "r">>, <<"a", "p", "r", "i", "l">>,
        <<"a", "v", "r", "i", "l">>, <<"a", "b", "r", "i", "l">>},
       {<<"m", "a", "y">>, <<"m", "a", "i">>, <<"m", "a", "y", "o">>},
       {<<"j", "u", "n">>, <<"j", "u", "n", "e">>, <<"j", "u", "i", "n">>,
        <<"j", "u", "n", "i", "o">>, <<"j", "u", "n", "i">>},
       {<<"j", "u", "l">>, <<"j", "u", "l", "y">>,
        <<"j", "u", "i", "l", "l", "e", "t">>, <<"j", "u", "l", "i", "o">>,
        <<"j", "u", "l", "i">>},
       {<<"a", "u", "g">>, <<"a", "u", "g", "u", "s", "t">>,
        <<"a", "o", "û", "t">>, <<"a", "g", "o", "s", "t", "o">>},
       {<<"s", "e", "p">>, <<"s", "e", "p", "t", "e", "m", "b", "e", "r">>,
        <<"s", "e", "p", "t", "e", "m", "b", "r", "e">>,
        <<"s", "e", "p", "t", "i", "e", "m", "b", "r", "e">>},
       {<<"o", "c", "t">>, <<"o", "c", "t", "o", "b", "e", "r">>,
        <<"o", "c", "t", "o", "b", "r", "e">>,
        <<"o", "c", "t", "u", "b", "r", "e">>,
        <<"o", "k", "t", "o", "b", "e", "r">>},
       {<<"n", "o", "v">>, <<"n", "o", "v", "e", "m", "b", "e", "r">>,
        <<"n", "o", "v", "e", "m", "b", "r", "e">>,
        <<"n", "o", "v", "i", "e", "m", "b", "r", "e">>},
       {<<"d", "e", "c">>, <<"d", "e", "c", "e", "m", "b", "e", "r">>,
        <<"d", "é", "c", "e", "m", "b", "r", "e">>,
        <<"d", "i", "c", "i", "e", "m", "b", "r", "e">>,
        <<"d", "e", "z", "e", "m", "b", "e", "r">>} >>

\* The match of lines 769-782: the month a lowercased name stands for,
\* January when the name is not in the table.
MonthOfName(name) ==
    IF \E k \in 1..12 : name \in MonthNames[k]
    THEN CHOOSE k \in 1..12 : name \in MonthNames[k]
    ELSE 1

\* Lines 764-786: three whitespace-separated parts are read as day, month
\* name and year.
NormalizeTextual(parts) ==
    FormatDate(ParsedOr(ParseU8(parts[1]), 1), MonthOfName(to_lowercase(parts[2])),
               ParsedOr(ParseU16(parts[3]), 2000))

\* Lines 793-818: the three readings tried on the parts a separator gives,
\* year-month-day first, then day-month-year, then month-day-year; None when
\* no reading fits.
NormalizeParts(p0, p1, p2) ==
    IF /\ ParseU16(p0) >= 0 /\ ParseU8(p1) >= 0 /\ ParseU16(p2) >= 0
       /\ ParseU16(p0) > 1900 /\ ParseU8(p1) <= 12 /\ ParseU16(p2) <= 31
    THEN Some(FormatDate(ParseU16(p2), ParseU8(p1), ParseU16(p0)))
    ELSE IF /\ ParseU8(p0) >= 0 /\ ParseU8(p1) >= 0 /\ ParseU16(p2) >= 0
            /\ ParseU16(p2) > 1900 /\ ParseU8(p1) <= 12 /\ ParseU8(p0) <= 31
    THEN Some(FormatDate(ParseU8(p0), ParseU8(p1), ParseU16(p2)))
    ELSE IF /\ ParseU8(p0) >= 0 /\ ParseU8(p1) >= 0 /\ ParseU16(p2) >= 0
            /\ ParseU16(p2) > 1900 /\ ParseU8(p0) <= 12 /\ ParseU8(p1) <= 31
    THEN Some(FormatDate(ParseU8(p1), ParseU8(p0), ParseU16(p2)))
    ELSE None

\* Lines 821-835: eight digits are YYYYMMDD when the first four exceed 1900,
\* DDMMYYYY otherwise; anything else is returned as it is (line 838).
NormalizeDigits(date_str) ==
    IF ByteLen(date_str) = 8 /\ \A i \in 1..Len(date_str) : date_str[i] \in Digit
    THEN IF DigitsValue(Slice(date_str, 0, 4)) > 1900
         THEN FormatDate(DigitsValue(Slice(date_str, 6, 8)),
                         DigitsValue(Slice(date_str, 4, 6)),
                         DigitsValue(Slice(date_str, 0, 4)))
         ELSE FormatDate(DigitsValue(Slice(date_str, 0, 2)),
                         DigitsValue(Slice(date_str, 2, 4)),
                         DigitsValue(Slice(date_str, 4, 8)))
    ELSE date_str

\* let separators = vec!["-", ".", "/", " "]
separators == <<"-", ".", "/", " ">>

\* The parts date_str.split(sep) gives, when there are three of them.
ThreeParts(date_str, sep) ==
    IF Len(SplitOn(date_str, {sep})) = 3 THEN SplitOn(date_str, {sep}) ELSE <<>>

RECURSIVE NormalizeSeparated(_, _)
\* Lines 789-818: the loop over the separators, from the k-th one on.
NormalizeSeparated(date_str, k) ==
    IF k > Len(separators) THEN NormalizeDigits(date_str)
    ELSE IF /\ ThreeParts(date_str, separators[k]) # <<>>
            /\ is_some(NormalizeParts(ThreeParts(date_str, separators[k])[1],
                                      ThreeParts(date_str, separators[k])[2],
                                      ThreeParts(date_str, separators[k])[3]))
    THEN Unwrap(NormalizeParts(ThreeParts(date_str, separators[k])[1],
                               ThreeParts(date_str, separators[k])[2],
                               ThreeParts(date_str, separators[k])[3]))
    ELSE NormalizeSeparated(date_str, k + 1)

\* EnhancedOcrProcessor::normalize_date (lines 762-839).
Enhanced_normalize_date(date_str) ==
    IF Contains(date_str, <<" ">>) /\ Len(split_whitespace(date_str)) = 3
    THEN NormalizeTextual(split_whitespace(date_str))
    ELSE NormalizeSeparated(date_str, 1)

\* [-./]
DateSeparators == {"-", ".", "/"}

\* s holds n digits from position i on.
DigitsAt(s, i, n) == i + n - 1 <= Len(s) /\ \A k \in i..(i + n - 1) : s[k] \in Digit

\* (\d{1,2}): two digits when there are two, else one, 0 when none.
OneOrTwo(s, i) == IF DigitsAt(s, i, 2) THEN 2 ELSE IF DigitsAt(s, i, 1) THEN 1 ELSE 0

\* The character at position i belongs to S.
CharIn(s, i, S) == i <= Len(s) /\ s[i] \in S

\* <sep>(\d{4}) at position j: the position behind it, 0 when it does not
\* match.
SepYearEnd(s, j, seps) ==
    IF CharIn(s, j, seps) /\ DigitsAt(s, j + 1, 4) THEN j + 5 ELSE 0

\* <sep>(\d{1,2})<sep>(\d{4}) at position j.  A digit group that a separator
\* must follow takes all the digits there are.
SepMonthYearEnd(s, j, seps) ==
    IF CharIn(s, j, seps) /\ OneOrTwo(s, j + 1) > 0
    THEN SepYearEnd(s, j + 1 + OneOrTwo(s, j + 1), seps) ELSE 0

\* (\d{1,2})<sep>(\d{1,2})<sep>(\d{4}) tried at position i with the separator
\* class seps.
DayFirstEnd(s, i, seps) ==
    IF OneOrTwo(s, i) > 0 THEN SepMonthYearEnd(s, i + OneOrTwo(s, i), seps) ELSE 0

\* [-./](\d{1,2}) at position j, the last group of the ISO pattern.
SepDayEnd(s, j) ==
    IF CharIn(s, j, DateSeparators) /\ OneOrTwo(s, j + 1) > 0
    THEN j + 1 + OneOrTwo(s, j + 1) ELSE 0

\* (\d{4})[-./](\d{1,2})[-./](\d{1,2}) tried at position i.
IsoEnd(s, i) ==
    IF DigitsAt(s, i, 4) /\ CharIn(s, i + 4, DateSeparators) /\ OneOrTwo(s, i + 5) > 0
    THEN SepDayEnd(s, i + 5 + OneOrTwo(s, i + 5)) ELSE 0

\* \s+(\d{4}) at position j.
SpaceYearEnd(s, j) ==
    IF RunLen(s, j, {" ", "\t"}) >= 1 /\ DigitsAt(s, j + RunLen(s, j, {" ", "\t"}), 4)
    THEN j + RunLen(s, j, {" ", "\t"}) + 4 ELSE 0

\* ([A-Za-z]{3,9})\s+(\d{4}) at position j: whitespace must follow the
\* letters, so the group takes the whole run of letters.
NameYearEnd(s, j) ==
    IF RunLen(s, j, Upper \cup Lower) \in 3..9
    THEN SpaceYearEnd(s, j + RunLen(s, j, Upper \cup Lower)) ELSE 0

\* (\d{1,2})\s+([A-Za-z]{3,9})\s+(\d{4}) tried at position i.
TextualEnd(s, i) ==
    IF OneOrTwo(s, i) > 0 /\ RunLen(s, i + OneOrTwo(s, i), {" ", "\t"}) >= 1
    THEN NameYearEnd(s, i + OneOrTwo(s, i) + RunLen(s, i + OneOrTwo(s, i), {" ", "\t"}))
    ELSE 0

\* (\d{2})(\d{2})(\d{4}) tried at position i.
EightDigitsEnd(s, i) == IF DigitsAt(s, i, 8) THEN i + 8 ELSE 0

\* DATE_PATTERNS (lines 499-510): where the k-th pattern matches when tried
\* at position i.  The second and the third pattern are the same expression.
DatePatternEnd(k, s, i) ==
    CASE k = 1 -> IsoEnd(s, i)
      [] k \in {2, 3} -> DayFirstEnd(s, i, DateSeparators)
      [] k = 4 -> TextualEnd(s, i)
      [] k = 5 -> EightDigitsEnd(s, i)

\* pattern.captures(text) for the k-th pattern: the whole match.
DatePatternMatch(k, txt) == Leftmost(txt, LAMBDA i : DatePatternEnd(k, txt, i))

RECURSIVE ExtractDateFrom(_, _)
\* The loop of extract_date_from_text from the k-th pattern on.
ExtractDateFrom(txt, k) ==
    IF k > 5 THEN None
    ELSE IF DatePatternMatch(k, txt) # NoMatch
    THEN Some(Enhanced_normalize_date(Matched(txt, DatePatternMatch(k, txt))))
    ELSE ExtractDateFrom(txt, k + 1)

\* EnhancedOcrProcessor::extract_date_from_text (lines 751-759).
extract_date_from_text(txt) == ExtractDateFrom(txt, 1)


\* The labels of DOB_PATTERNS (lines 513-518), lowercased: the patterns are
\* case-insensitive.
DobLabels ==
    << {<<"d", "a", "t", "e", " ", "o", "f", " ", "b", "i", "r", "t", "h">>,
        <<"b", "i", "r", "t", "h", " ", "d", "a", "t", "e">>,
        <<"g", "e", "b", "o", "r", "e", "n", " ", "a", "m">>,
        <<"d", "a", "t", "e", " ", "d", "e", " ", "n", "a", "i", "s", "s", "a", "n", "c", "e">>,
        <<"f", "e", "c", "h", "a", " ", "d", "e", " ", "n", "a", "c", "i", "m", "i", "e", "n", "t", "o">>,
        <<"g", "e", "b", "u", "r", "t", "s", "d", "a", "t", "u", "m">>},
       {<<"n", "é", "(", "e", ")", " ", "l", "e">>,
        <<"n", "a", "c", "i", "d", "o", " ", "e", "l">>,
        <<"b", "o", "r", "n", " ", "o", "n">>},
       {<<"d", "o", "b">>, <<"d", "d", "n">>} >>

\* The text holds the label l at position i, whatever the case of its letters.
LabelAt(s, i, l) ==
    i + Len(l) - 1 <= Len(s) /\ to_lowercase(SubSeq(s, i, i + Len(l) - 1)) = l

\* The label of the k-th pattern that the text holds at position i, when
\* there is one: the position behind it, 0 otherwise.  No label is the
\* beginning of another label of the same pattern.
LabelEnd(k, s, i) ==
    IF \E l \in DobLabels[k] : LabelAt(s, i, l)
    THEN i + Len(CHOOSE l \in DobLabels[k] : LabelAt(s, i, l))
    ELSE 0

\* \s*
SkipSpace(s, j) == j + RunLen(s, j, {" ", "\t"})

\* \s*[:#]?\s* from position j: the position where the value begins.
ValueStart(s, j) ==
    SkipSpace(s, IF CharIn(s, SkipSpace(s, j), {":", "#"})
                 THEN SkipSpace(s, j) + 1 ELSE SkipSpace(s, j))

\* The capture group of DOB_PATTERNS tried at position j:
\* [0-9]{1,2}[-./\s][0-9]{1,2}[-./\s][0-9]{4}, else
\* [0-9]{1,2}\s+[A-Za-z]{3,9}\s+[0-9]{4}.
DobValueEnd(s, j) ==
    IF DayFirstEnd(s, j, DateSeparators \cup {" ", "\t"}) # 0
    THEN DayFirstEnd(s, j, DateSeparators \cup {" ", "\t"})
    ELSE TextualEnd(s, j)

\* The k-th pattern of DOB_PATTERNS tried at position i.
DobPatternEnd(k, s, i) ==
    IF LabelEnd(k, s, i) # 0 THEN DobValueEnd(s, ValueStart(s, LabelEnd(k, s, i))) ELSE 0

DobPatternMatch(k, txt) == Leftmost(txt, LAMBDA i : DobPatternEnd(k, txt, i))

\* captures.get(1) of a match of the k-th pattern: the value behind the label.
DobCaptured(k, txt, m) ==
    SubSeq(txt, ValueStart(txt, LabelEnd(k, txt, m.from)), m.to - 1)

\* text.to_lowercase().contains(...) of lines 691-695.
BirthKeywords ==
    {<<"b", "i", "r", "t", "h">>, <<"b", "o", "r", "n">>,
     <<"n", "a", "i", "s", "s", "a", "n", "c", "e">>,
     <<"n", "a", "c", "i", "d", "o">>, <<"g", "e", "b", "u", "r", "t">>}

RECURSIVE ExtractDobFrom(_, _)
\* The loop of extract_dob_from_text from the k-th pattern on, and the
\* fallback to a generic date near a birth keyword.
ExtractDobFrom(txt, k) ==
    IF k > Len(DobLabels)
    THEN IF \E kw \in BirthKeywords : Contains(to_lowercase(txt), kw)
         THEN extract_date_from_text(txt)
         ELSE None
    ELSE IF DobPatternMatch(k, txt) # NoMatch
    THEN Some(Enhanced_normalize_date(DobCaptured(k, txt, DobPatternMatch(k, txt))))
    ELSE ExtractDobFrom(txt, k + 1)

\* EnhancedOcrProcessor::extract_dob_from_text (lines 680-700).
extract_dob_from_text(txt) == ExtractDobFrom(txt, 1)

\* ------------------------------------------------------------------------
\* Specification of the visual date extraction: one line of OCR text goes
\* through extract_date_from_text or extract_dob_from_text.

\* The days, months and years the written dates are built from.
VisualDays == {<<"0", "5">>, <<"1", "5">>, <<"2", "0">>}

VisualMonths == {<<"0", "1">>, <<"0", "3">>, <<"1", "2">>}

VisualYears == {<<"1", "9", "8", "5">>, <<"2", "0", "3", "0">>}

\* Names of the months above, all of them in the table of normalize_date.
MonthWritten(m) ==
    CASE m = <<"0", "1">> -> {<<"J", "a", "n">>, <<"e", "n", "e", "r", "o">>}
      [] m = <<"0", "3">> -> {<<"M", "A", "R">>, <<"M", "a", "r", "c", "h">>}
      [] m = <<"1", "2">> -> {<<"D", "e", "c">>, <<"D", "e", "z", "e", "m", "b", "e", "r">>}

\* The date d, m, y written with one separator.
Separated(a, b, c, sep) == a \o <<sep>> \o b \o <<sep>> \o c

\* The ways the date d, m, y is written in the form f.  A month-first
\* date is written only when its day cannot be read as a month.
Written(f, d, m, y) ==
    CASE f = "YYYY-MM-DD" -> {Separated(y, m, d, "-")}
      [] f = "DD/MM/YYYY" -> {Separated(d, m, y, sep) : sep \in {"/", ".", "-"}}
      [] f = "MM/DD/YYYY" -> IF DigitsValue(d) > 12 THEN {Separated(m, d, y, "/")} ELSE {}
      [] f = "textual" -> {Separated(d, n, y, " ") : n \in MonthWritten(m)}
      [] f = "DDMMYYYY" -> {d \o m \o y}
      [] f = "YYYYMMDD" -> {y \o m \o d}
      [] f = "YYMMDD" -> {SubSeq(y, 3, 4) \o m \o d}
      [] f = "DD MM YYYY" -> {Separated(d, m, y, " ")}

\* The forms a date is listed to be found in, and one more the labelled
\* patterns accept.
ListedForms == {"YYYY-MM-DD", "DD/MM/YYYY", "MM/DD/YYYY", "textual", "DDMMYYYY", "YYYYMMDD", "YYMMDD"}

DateForms == ListedForms \cup {"DD MM YYYY"}

\* What stands before the date on its line.
LinePrefixes ==
    {<<>>,
     <<"D", "O", "B", ":", " ">>,
     <<"D", "a", "t", "e", " ", "o", "f", " ", "B", "i", "r", "t", "h", " ">>,
     <<"b", "o", "r", "n", " ">>}

\* The date d, m, y in the form DD/MM/YYYY.
Canonical(d, m, y) == Separated(d, m, y, "/")

\* The lines that hold the date d, m, y in the form f, each with the form
\* and the date it was written from.
WrittenAs(f, d, m, y) ==
    {[line |-> p \o w, form |-> f, date |-> Canonical(d, m, y)] : p \in LinePrefixes, w \in Written(f, d, m, y)}

WrittenDates ==
    UNION {WrittenAs(f, d, m, y) : f \in DateForms, d \in VisualDays, m \in VisualMonths, y \in VisualYears}

DateLines == {w.line : w \in WrittenDates}

InitVisualDate ==
    /\ pc = "line"
    /\ text \in DateLines
    /\ mrz = Unused
    /\ visual = Unused
    /\ env = Unused
    /\ corrected = Unused
    /\ recorrected = Unused
    /\ outcome = Unused

\* A generic date is looked for in the line.
ExtractDate ==
    /\ pc = "line"
    /\ pc' = "date_extracted"
    /\ outcome' = [extractor |-> "extract_date_from_text", date |-> extract_date_from_text(text)]
    /\ UNCHANGED <<text, mrz, visual, env, corrected, recorrected>>

\* A date of birth is looked for in the line.
ExtractDob ==
    /\ pc = "line"
    /\ pc' = "date_extracted"
    /\ outcome' = [extractor |-> "extract_dob_from_text", date |-> extract_dob_from_text(text)]
    /\ UNCHANGED <<text, mrz, visual, env, corrected, recorrected>>

NextVisualDate == ExtractDate \/ ExtractDob

SpecVisualDate == InitVisualDate /\ [][NextVisualDate]_vars

\* ------------------------------------------------------------------------
\* Claims about the dates of the visual zone (checked under SpecVisualDate)

\* C19: a date that visual extraction accepts from a line, whichever listed
\* form it was written in (ISO, DD/MM/YYYY, MM/DD/YYYY, textual month, digits
\* only), is returned as DD/MM/YYYY and denotes the date that was written.
C19_AcceptedDateCanonicalSameDate ==
    (pc = "date_extracted" /\ is_some(outcome.date)) =>
        \A w \in WrittenDates :
            (w.line = text /\ w.form \in ListedForms) => Unwrap(outcome.date) = w.date

\* C19 (the forms the extraction does handle): every listed form except the
\* eight digits DDMMYYYY comes back as DD/MM/YYYY with the written date.
C19_SeparatedAndTextualCanonical ==
    (pc = "date_extracted" /\ is_some(outcome.date)) =>
        \A w \in WrittenDates :
            (w.line = text /\ w.form \in ListedForms \ {"DDMMYYYY"}) => Unwrap(outcome.date) = w.date

--------------------------------------------------------------------------
(* Claims about complete, agreeing records (checked under SpecConfidence)  *)

\* The fields the MRZ score and the visual score count.
MrzScored ==
    {"document_number", "surname", "given_names", "nationality", "date_of_birth",
     "gender", "date_of_expiry"}

VisualScored ==
    {"document_number", "surname", "date_of_birth", "gender", "date_of_expiry", "date_of_issue"}

VisualScoredOptional == {"place_of_birth", "authority"}

\* Every scored field of both records is present and non-empty.
RecordsComplete(m, v) ==
    /\ \A f \in MrzScored : m[f] # <<>>
    /\ \A f \in VisualScored : v[f] # <<>>
    /\ \A f \in VisualScoredOptional : is_some(v[f]) /\ Unwrap(v[f]) # <<>>

\* The fields the two records share carry the same value; a date is the same
\* date written YYMMDD in the MRZ and DD/MM/YYYY in the visual zone.
SharedFieldsAgree(m, v) ==
    /\ RecordsAgree(m, v)
    /\ m.gender = v.gender
    /\ m.given_names = v.given_names
    /\ m.nationality = v.nationality
    /\ m.issuing_country = v.issuing_country

\* is_valid with the three thresholds of the statement.
ValidWithHighScores(r) ==
    /\ r.is_valid
    /\ FLe(Tenths(7), r.confidence.mrz_confidence)
    /\ FLe(Tenths(7), r.confidence.visual_confidence)
    /\ FLe(Tenths(9), r.confidence.consistency_confidence)

\* C20: for MRZ and visual records that are both complete and agree on every
\* shared field, the confidence validator returns is_valid = true with
\* mrz_confidence >= 0.7, visual_confidence >= 0.7 and
\* consistency_confidence >= 0.9.
C20_CompleteAgreeingRecordsValid ==
    (pc = "validated" /\ RecordsComplete(mrz, visual) /\ SharedFieldsAgree(mrz, visual))
        => ValidWithHighScores(outcome.result)

\* C20 (the validator of ml/validation.rs alone): its result on complete,
\* agreeing records meets the three thresholds.
C20_MlCompleteAgreeingRecordsValid ==
    (pc = "validated" /\ outcome.validator = "ml"
        /\ RecordsComplete(mrz, visual) /\ SharedFieldsAgree(mrz, visual))
        => ValidWithHighScores(outcome.result)

\* C20 (the validator of ml/simple_validator.rs): on complete, agreeing
\* records it does return is_valid with the MRZ and visual scores at 0.7 or
\* more; the consistency score is the one that stays below 0.9.
C20_SimpleCompleteAgreeingValidLowConsistency ==
    (pc = "validated" /\ outcome.validator = "simple"
        /\ RecordsComplete(mrz, visual) /\ SharedFieldsAgree(mrz, visual))
        => /\ outcome.result.is_valid
           /\ FLe(Tenths(7), outcome.result.confidence.mrz_confidence)
           /\ FLe(Tenths(7), outcome.result.confidence.visual_confidence)
           /\ FLt(outcome.result.confidence.consistency_confidence, Tenths(9))

--------------------------------------------------------------------------
(* Field-aware text correction: ml/text_correction.rs.  The file is not   *)
(* declared in ml/mod.rs; it is modelled as written.                      *)

\* enum FieldType (lines 9-17).
FieldType == {"DocumentNumber", "Name", "Date", "Gender", "Nationality", "Address", "Generic"}

\* FIELD_CHAR_PREFERENCES (lines 75-108): per field type, the characters
\* preferred over a character.
FIELD_CHAR_PREFERENCES ==
    [DocumentNumber |->
        ("O" :> <<"0">>) @@ ("I" :> <<"1">>) @@ ("l" :> <<"1">>) @@
        ("B" :> <<"8">>) @@ ("S" :> <<"5">>) @@ ("Z" :> <<"2">>),
     Name |->
        ("0" :> <<"O">>) @@ ("1" :> <<"I", "l">>) @@ ("5" :> <<"S">>) @@ ("8" :> <<"B">>),
     Date |->
        ("O" :> <<"0">>) @@ ("I" :> <<"1">>) @@ ("l" :> <<"1">>) @@ ("S" :> <<"5">>) @@
        ("B" :> <<"8">>) @@ ("Z" :> <<"2">>) @@ ("|" :> <<"/">>)]

\* preferences.get(&c) of lines 117-128: the first preferred character of c
\* for the field type, c itself when there is none.
PreferredChar(field_type, c) ==
    IF field_type \in DOMAIN FIELD_CHAR_PREFERENCES
       /\ c \in DOMAIN FIELD_CHAR_PREFERENCES[field_type]
       /\ FIELD_CHAR_PREFERENCES[field_type][c] # <<>>
    THEN FIELD_CHAR_PREFERENCES[field_type][c][1]
    ELSE c

\* The loop of lines 121-132.
ApplyPreferences(txt, field_type) ==
    [i \in 1..Len(txt) |-> PreferredChar(field_type, txt[i])]

RECURSIVE Replace(_, _, _)
\* str::replace: every non-overlapping occurrence of from, left to right.
Replace(s, from, to) ==
    IF Len(s) < Len(from) THEN s
    ELSE IF SubSeq(s, 1, Len(from)) = from
    THEN to \o Replace(SubSeq(s, Len(from) + 1, Len(s)), from, to)
    ELSE <<Head(s)>> \o Replace(Tail(s), from, to)

\* (mutant: the document number is left as the preferences made it)
PostProcessKeepAll(corrected_text, field_type) == corrected_text

\* The match of lines 135-155.
PostProcess(corrected_text, field_type) ==
    CASE field_type = "DocumentNumber" ->
            Filter(corrected_text, AsciiAlnum \cup {"<"})
      [] field_type = "Name" ->
            Replace(Replace(to_uppercase(corrected_text), <<"0", "E", "L">>, <<"D", "E", "L">>),
                    <<"0", "E">>, <<"D", "E">>)
      [] field_type = "Date" ->
            Filter(corrected_text, Digit \cup {"/", "-", "."})
      [] OTHER -> corrected_text

\* correct_text_with_context (lines 112-158).
correct_text_with_context(txt, field_type) ==
    PostProcess(ApplyPreferences(txt, field_type), field_type)

\* ------------------------------------------------------------------------
\* Specification of the text correction: one field text of one field type
\* is corrected.

MaxTextLen == 3

TextAlphabet == {"A", "O", "I", "l", "B", "S", "Z", "7", "0", "E", "<", "-", "|", "é"}

\* The texts of the tests of lines 262-281.
TestTexts ==
    {<<"A", "0", "1", "2", "3", "4", "S", "6", "7", "8", "9", "O">>,
     <<"S", "M", "1", "T", "H", " ", "J", "0", "H", "N">>,
     <<"O", "1", "/", "I", "2", "/", "2", "O", "2", "2">>}

FieldTexts == StrsUpTo(TextAlphabet, MaxTextLen) \cup TestTexts

FieldTypeInputs == {"DocumentNumber", "Name", "Date", "Generic"}

InitTextCorrection ==
    /\ pc = "field_text"
    /\ text \in FieldTexts
    /\ env \in FieldTypeInputs
    /\ mrz = Unused
    /\ visual = Unused
    /\ corrected = Unused
    /\ recorrected = Unused
    /\ outcome = Unused

CorrectText ==
    /\ pc = "field_text"
    /\ pc' = "text_corrected"
    /\ outcome' = correct_text_with_context(text, env)
    /\ UNCHANGED <<text, mrz, visual, env, corrected, recorrected>>

NextTextCorrection == CorrectText

SpecTextCorrection == InitTextCorrection /\ [][NextTextCorrection]_vars

\* ------------------------------------------------------------------------
\* Claims about the text correction (checked under SpecTextCorrection)

\* The digit a look-alike letter stands for in a document number.
LookAlikeDigit ==
    ("O" :> "0") @@ ("I" :> "1") @@ ("l" :> "1") @@ ("B" :> "8") @@ ("S" :> "5") @@ ("Z" :> "2")

RECURSIVE StatedDocumentNumber(_)
\* Character by character: a look-alike letter becomes its digit, any other
\* ASCII letter or digit and '<' is kept, everything else is removed.
StatedDocumentNumber(s) ==
    IF s = <<>> THEN <<>>
    ELSE (IF Head(s) \in DOMAIN LookAlikeDigit THEN <<LookAlikeDigit[Head(s)]>>
          ELSE IF Head(s) \in AsciiAlnum \cup {"<"} THEN <<Head(s)>>
          ELSE <<>>) \o StatedDocumentNumber(Tail(s))

ExampleDocumentNumber == <<"A", "0", "1", "2", "3", "4", "S", "6", "7", "8", "9", "O">>

--------------------------------------------------------------------------
(* Claims about the line locator (checked under SpecDecode)               *)

\* DocumentFormat::TD3.mrz_lines() (models/data.rs)
mrz_lines == 2

\* The trimmed lines of the text that pass the candidate test, in the order
\* of the text.
CandidateLines(txt) ==
    SelectSeq([i \in 1..Len(txt) |-> Trim(txt[i])], IsMrzCandidate)

\* The number of candidates that come before the i-th in a ranking by '<'
\* count, the earlier line first among equals.
FillerRank(c, i) ==
    Cardinality({j \in 1..Len(c) :
        \/ CountIn(c[j], {"<"}) > CountIn(c[i], {"<"})
        \/ CountIn(c[j], {"<"}) = CountIn(c[i], {"<"}) /\ j < i})

RECURSIVE TopInTextOrder(_, _, _)
\* The candidates from the i-th on that rank among the first n, in the order
\* of the text.
TopInTextOrder(c, i, n) ==
    IF i > Len(c) THEN <<>>
    ELSE (IF FillerRank(c, i) < n THEN <<c[i]>> ELSE <<>>) \o TopInTextOrder(c, i + 1, n)

\* C22: the line locator returns exactly the document_format.mrz_lines()
\* candidates with the highest '<' counts, in the order in which they appear
\* in the OCR text, so the line decoded as line 1 precedes the line decoded
\* as line 2 in the text.
C22_LocatedTopCandidatesInTextOrder ==
    pc \in {"decoded", "extraction_failed"} =>
        extract_mrz_lines_from_text(text) = TopInTextOrder(CandidateLines(text), 1, mrz_lines)

\* C22 (what the locator does return): the three candidates with the highest
\* '<' counts, the one with the most '<' first.
C22_LocatedTopThreeByFillers ==
    pc \in {"decoded", "extraction_failed"} =>
        /\ Len(extract_mrz_lines_from_text(text)) = Min2(3, Len(CandidateLines(text)))
        /\ \A i \in 1..Len(extract_mrz_lines_from_text(text)) :
              extract_mrz_lines_from_text(text)[i]
                  = CandidateLines(text)[CHOOSE k \in 1..Len(CandidateLines(text)) :
                                             FillerRank(CandidateLines(text), k) = i - 1]

\* C23: whenever the primary pass finds fewer than 2 candidate lines (none or
\* exactly one), the fallback passes are tried, and the lines that are decoded
\* are the ones they yield; decoding fails for want of lines only when the
\* fallback passes yield none.
C23_FallbackWhenFewerThanTwoCandidates ==
    (pc \in {"decoded", "extraction_failed"} /\ Len(extract_mrz_lines_from_text(text)) < 2) =>
        /\ LocatedLines(text) = try_alternative_mrz_extraction(text)
        /\ Len(LocatedLines(text)) < 2 => try_alternative_mrz_extraction(text) = <<>>

\* C23 (what happens with exactly one candidate): the fallback passes are not
\* consulted and decoding fails with MrzExtractionError, whatever they would
\* have yielded.
C23_OneCandidateFailsWithoutFallback ==
    (pc \in {"decoded", "extraction_failed"} /\ Len(extract_mrz_lines_from_text(text)) = 1) =>
        /\ pc = "extraction_failed"
        /\ outcome = Err("MrzExtractionError")

\* C23 (no candidate at all): the lines that are decoded are the ones the
\* fallback passes yield.
C23_NoCandidateUsesFallback ==
    (pc \in {"decoded", "extraction_failed"} /\ extract_mrz_lines_from_text(text) = <<>>) =>
        /\ LocatedLines(text) = try_alternative_mrz_extraction(text)
        /\ pc = "decoded" => Len(try_alternative_mrz_extraction(text)) >= 2

--------------------------------------------------------------------------
(* Specification of the candidate test: the locator runs on a text of one *)
(* line with given numbers of alphanumeric characters, '<' and others.    *)

MaxAlnum == 28

MaxFillers == 2

MaxOther == 10

\* Letters and digits a line is made of: upper case, lower case, a digit and
\* an accented letter.
AlnumChars == {"A", "a", "7", "é"}

\* A line of a alphanumeric characters c, f fillers and o other characters,
\* with pad spaces around it.
LineOf(c, a, f, o, pad) == Rep(" ", pad) \o Rep(c, a) \o Rep("<", f) \o Rep("*", o) \o Rep(" ", pad)

CandidateTexts ==
    {<<LineOf(c, a, f, o, pad)>> :
        c \in AlnumChars, a \in 0..MaxAlnum, f \in 0..MaxFillers, o \in 0..MaxOther, pad \in 0..1}

InitCandidate ==
    /\ pc = "ocr_line"
    /\ text \in CandidateTexts
    /\ mrz = Unused
    /\ visual = Unused
    /\ env = Unused
    /\ corrected = Unused
    /\ recorrected = Unused
    /\ outcome = Unused

\* extract_mrz_lines_from_text on the text.
LocateLines ==
    /\ pc = "ocr_line"
    /\ pc' = "located"
    /\ outcome' = extract_mrz_lines_from_text(text)
    /\ UNCHANGED <<text, mrz, visual, env, corrected, recorrected>>

NextCandidate == LocateLines

SpecCandidate == InitCandidate /\ [][NextCandidate]_vars

\* ------------------------------------------------------------------------
\* Claims about the candidate test (checked under SpecCandidate)

\* The stripped line of a one-line text.
StrippedLine == Trim(text[1])

\* The line has a '<' and more than 15 alphanumeric characters.
HasFillerAndAlnum(l) == CountIn(l, {"<"}) >= 1 /\ CountIn(l, Alphanumeric) > 15

\* C24: a stripped line of at least 20 characters is kept as a candidate if
\* and only if it has a '<' and more than 15 alphanumeric characters, or it
\* has at least 30 characters and its alphanumeric count is at least three
\* quarters of its length; a line shorter than 20 characters is never kept.
C24_CandidateIffStated ==
    pc = "located" =>
        (outcome # <<>>) =
            (/\ Len(StrippedLine) >= 20
             /\ \/ HasFillerAndAlnum(StrippedLine)
                \/ /\ Len(StrippedLine) >= 30
                   /\ 4 * CountIn(StrippedLine, Alphanumeric) >= 3 * Len(StrippedLine))

\* C24 (amended): the same, with an alphanumeric count of more than three
\* quarters of the length; a kept line is returned stripped, not uppercased.
C24_CandidateIffMoreThanThreeQuarters ==
    pc = "located" =>
        /\ (outcome # <<>>) =
            (/\ Len(StrippedLine) >= 20
             /\ \/ HasFillerAndAlnum(StrippedLine)
                \/ /\ Len(StrippedLine) >= 30
                   /\ 4 * CountIn(StrippedLine, Alphanumeric) > 3 * Len(StrippedLine))
        /\ outcome # <<>> => outcome = <<StrippedLine>>

\* A line of 32 characters, 24 of them alphanumeric and none a '<', is not
\* kept.
C24_Witness ==
    /\ pc = "located"
    /\ text = <<LineOf("A", 24, 0, 8, 0)>>
    /\ outcome = <<>>

--------------------------------------------------------------------------
(* Claims about the personal number of a decoded record (SpecDecode)      *)

\* The second of the located lines as decoding reads it.
DecodedLine2 == clean_mrz_line(LocatedLines(text)[2])

\* C25: decoding takes personal_number from exactly the 14 characters at
\* positions [28:42] of line 2 with the '<' fillers stripped, None when they
\* are all fillers; the check characters at [42] and [43] are never part of
\* the value.
C25_PersonalNumberFromItsPositions ==
    (pc = "decoded" /\ LocatedTd3Pair /\ Len(DecodedLine2) = mrz_chars_per_line) =>
        mrz.personal_number =
            (IF Slice(DecodedLine2, 28, 42) = Rep("<", 14) THEN None
             ELSE Some(StripFillers(Slice(DecodedLine2, 28, 42))))

\* C25 (what decoding stores): the 15 characters at [28:43], the check
\* character of the personal number included, with the fillers stripped.
C25_PersonalNumberWithItsCheckCharacter ==
    (pc = "decoded" /\ LocatedTd3Pair /\ Len(DecodedLine2) = mrz_chars_per_line) =>
        mrz.personal_number = Some(StripFillers(Slice(DecodedLine2, 28, 43)))

--------------------------------------------------------------------------
(* Claims about the MRZ score (checked under SpecConfidence)              *)

\* The weights of the required MRZ fields, in tenths; the two names count
\* together.
MrzFieldWeight ==
    [document_number |-> 2, names |-> 2, nationality |-> 1, date_of_birth |-> 2,
     gender |-> 1, date_of_expiry |-> 2]

\* The required field is present in the record.
MrzFieldPresent(m, f) ==
    IF f = "names" THEN m.surname # <<>> /\ m.given_names # <<>> ELSE m[f] # <<>>

RECURSIVE WeightOf(_, _)
\* The sum, in tenths, of the weights of the fields of the set that are
\* present.
WeightOf(m, fields) ==
    IF fields = {} THEN 0
    ELSE LET f == CHOOSE x \in fields : TRUE
         IN (IF MrzFieldPresent(m, f) THEN MrzFieldWeight[f] ELSE 0) + WeightOf(m, fields \ {f})

\* The document-number length the validator that ran requires for the
\* country, 0 when it has no rule for it.
RuleLength(validator, country) ==
    IF validator = "simple" THEN Simple_country_rules(country) ELSE Ml_country_rules(country)

\* The score in tenths: the weights, plus bonus when the rule of the country
\* is met, minus penalty when it is not, clamped to 0..10.
StatedMrzTenths(validator, m, bonus, penalty) ==
    Max2(0, Min2(10,
        WeightOf(m, DOMAIN MrzFieldWeight)
        + (IF RuleLength(validator, m.issuing_country) = 0 THEN 0
           ELSE IF ByteLen(m.document_number) = RuleLength(validator, m.issuing_country)
                THEN bonus ELSE 0 - penalty)))

\* C26: mrz_confidence is the sum of the fixed weights of the non-empty
\* required MRZ fields, raised by 0.1 when the document-number-length rule of
\* the issuing country is met and lowered by 0.1 when it is not, clamped to
\* [0,1].
C26_MrzConfidenceWeightsPlusMinusTenth ==
    pc = "validated" =>
        outcome.result.confidence.mrz_confidence
            = Tenths(StatedMrzTenths(outcome.validator, mrz, 1, 1))

\* C26 (amended): the same sum, raised by 0.1 when the rule is met and
\* lowered by 0.2 when it is not, clamped to [0,1].
C26_MrzConfidenceWeightsPlusTenthMinusFifth ==
    pc = "validated" =>
        outcome.result.confidence.mrz_confidence
            = Tenths(StatedMrzTenths(outcome.validator, mrz, 1, 2))

\* A complete record of a country with a rule and a document number of the
\* wrong length scores 0.8.
C26_Witness ==
    /\ pc = "validated"
    /\ outcome.validator = "simple"
    /\ \A f \in DOMAIN MrzFieldWeight : MrzFieldPresent(mrz, f)
    /\ mrz.issuing_country = <<"U", "S", "A">>
    /\ Len(mrz.document_number) = 5
    /\ outcome.result.confidence.mrz_confidence = Tenths(8)


--------------------------------------------------------------------------
\* Reconciliation followed by the MRZ cross-check
\* (passport_validator.rs 70-110, field_correction.rs 12-157, mrz.rs 108-304).

\* The messages cross_check_fields gives for the four reconciled fields.
ReconciledFieldMismatches ==
    {"Document number mismatch", "Gender mismatch",
     "Date of birth mismatch", "Date of expiry mismatch"}

\* The mismatch messages of the four reconciled fields among a list of issues.
MismatchesIn(issues) ==
    {issues[i].message : i \in 1..Len(issues)} \cap ReconciledFieldMismatches

\* C27: validating a MRZ record with 6-digit dates against the visual record
\* that reconciliation produced reports no mismatch issue for the document
\* number, the gender, the date of birth or the date of expiry.
C27_NoMismatchAfterReconciliation ==
    (pc = "validated" /\ IsMrzDate(mrz.date_of_birth) /\ IsMrzDate(mrz.date_of_expiry))
        => MismatchesIn(outcome.result.mrz_validation.issues) = {}

\* C27: a MRZ date of birth whose year is 50 or more, beside an empty visual
\* date of birth, is written by the reconciliation with the century 19, read by the MRZ validator with the
\* century 20, and reported as a date of birth mismatch.
C27_LastCenturyBirthReportedAsMismatch ==
    (/\ pc = "validated"
     /\ IsMrzDate(mrz.date_of_birth)
     /\ visual.date_of_birth = <<>>
     /\ DigitsValue(Slice(mrz.date_of_birth, 0, 2)) >= 50
     /\ Mrz_parse_date(mrz.date_of_birth) # <<>>)
        => /\ corrected.corrected.date_of_birth = format_mrz_date(mrz.date_of_birth)
           /\ "Date of birth mismatch" \in MismatchesIn(outcome.result.mrz_validation.issues)


--------------------------------------------------------------------------
\* Expiry validation of the dates the pipeline produces (expiry.rs 8-52, 92-103).

InvalidExpiryFormat ==
    ValidationIssue("Expiry", "Invalid expiry date format in both visual and MRZ data")

\* The calendar date a 6-digit MRZ date stands for, with the century
\* format_mrz_date gives it.
MrzCalendarDate(d) ==
    from_ymd_opt((IF DigitsValue(Slice(d, 0, 2)) >= 50 THEN 1900 ELSE 2000)
                     + DigitsValue(Slice(d, 0, 2)),
                 DigitsValue(Slice(d, 2, 4)), DigitsValue(Slice(d, 4, 6)))

HasIssue(issues, issue) == \E i \in 1..Len(issues) : issues[i] = issue

\* C28: the expiry validation reads the date of expiry the reconciliation
\* wrote (DD/MM/YYYY) or the MRZ carries (YYMMDD) as that calendar date:
\* not expired exactly when the date is on or after today, and never an
\* invalid-format issue.
C28_ExpiryReadsPipelineDates ==
    (/\ pc = "validated"
     /\ IsMrzDate(mrz.date_of_expiry)
     /\ is_some(MrzCalendarDate(mrz.date_of_expiry))
     /\ corrected.corrected.date_of_expiry = format_mrz_date(mrz.date_of_expiry))
        => LET r == outcome.result.expiry_validation
           IN /\ ~HasIssue(r.issues, InvalidExpiryFormat)
              /\ r.not_expired
                     = DateGe(Unwrap(MrzCalendarDate(mrz.date_of_expiry)), env.today)

\* C28: a date of expiry without white space, DD/MM/YYYY from the
\* reconciliation beside YYMMDD from the MRZ, is never parsed: the expiry
\* validation fails with the invalid-format issue whatever the date.
C28_PipelineDatesAreInvalidFormat ==
    (/\ pc = "validated"
     /\ IsMrzDate(mrz.date_of_expiry)
     /\ corrected.corrected.date_of_expiry = format_mrz_date(mrz.date_of_expiry))
        => outcome.result.expiry_validation
               = [is_valid |-> FALSE, not_expired |-> FALSE,
                  issues |-> <<InvalidExpiryFormat>>]


--------------------------------------------------------------------------
\* Reconciliation beside an empty MRZ value (field_correction.rs 19-30, 79-126).

\* The string fields correct_visual_data may rewrite.
RewrittenFields ==
    {"document_number", "surname", "given_names", "nationality",
     "date_of_birth", "date_of_expiry", "gender"}

\* C29: reconciliation never replaces a non-empty visual value with an empty
\* one: a reconciled field whose input visual value is non-empty is
\* non-empty, also when the MRZ value of the field is empty.
C29_NonEmptyVisualStaysNonEmpty ==
    pc = "reconciled" =>
        \A f \in RewrittenFields :
            visual[f] # <<>> => corrected.corrected[f] # <<>>

\* C29: a non-empty visual name or date stays non-empty; a visual document
\* number, nationality or gender with an ASCII letter or digit is emptied
\* when the MRZ value of the field is empty.
C29_EmptyMrzValueEmptiesOverwrittenFields ==
    pc = "reconciled" =>
        /\ \A f \in RewrittenFields \ StringFields :
               visual[f] # <<>> => corrected.corrected[f] # <<>>
        /\ \A f \in StringFields :
               (mrz[f] = <<>> /\ clean_field(visual[f]) # <<>>)
                   => corrected.corrected[f] = <<>>


--------------------------------------------------------------------------
\* The combined result (passport_validator.rs 157-183, mrz.rs 13-74).

\* The issue lists of the sub-validations, one after the other, in the order
\* validate_all extends the combined list.
ConcatIssues(r) ==
    r.mrz_validation.issues \o r.security_validation.issues
        \o r.format_validation.issues \o r.biometric_validation.issues
        \o r.database_validation.issues \o r.expiry_validation.issues

\* C30: in every result of PassportValidator's validation the overall is_valid is the
\* conjunction of the sub-validations' is_valid, the issue list is the
\* concatenation of their issue lists, and is_valid is true exactly when the
\* combined issue list is empty.
C30_ValidIffNoIssue ==
    pc = "validated" =>
        LET r == outcome.result
        IN /\ r.is_valid = (\A s \in SubValidations : r[s].is_valid)
           /\ r.issues = ConcatIssues(r)
           /\ r.is_valid = (r.issues = <<>>)


--------------------------------------------------------------------------
\* MRTDVerifier::verify (verification/mrtd.rs 42-109) and the validations it
\* runs.  A document format is "TD1", "TD3", ... or "None"; the level lists of
\* the security features and the data groups of the chip are sequences of
\* names; fingerprint_data and iris_data are None or Some(number of samples).

\* DocumentFormat::mrz_lines (models/data.rs 21-29); 3 when the format is
\* unknown (mrtd.rs 441-444).
ExpectedMrzLines(document_format) ==
    CASE document_format = "TD1" -> 3
      [] document_format \in {"TD2", "TD3", "MRVA", "MRVB"} -> 2
      [] OTHER -> 3

\* DocumentFormat::mrz_chars_per_line (models/data.rs 31-39); 44 when the
\* format is unknown (mrtd.rs 458-461).
ExpectedMrzChars(document_format) ==
    CASE document_format = "TD1" -> 30
      [] document_format \in {"TD2", "MRVB"} -> 36
      [] document_format \in {"TD3", "MRVA"} -> 44
      [] OTHER -> 44

\* SecurityProcessor::validate_security_features (processing/security.rs 121-158).
Processor_validate_security_features(features, document_format) ==
    LET min_level1_features == IF document_format = "TD3" THEN 5 ELSE 3
        min_level2_features == IF document_format = "TD3" THEN 3 ELSE 2
        has_min_level1 == Len(features.level_1_features) >= min_level1_features
        has_min_level2 == Len(features.level_2_features) >= min_level2_features
        has_basic_features ==
            {"hologram_present", "microprinting_present", "security_thread_present"}
                \subseteq features.present
        has_electronic_features ==
            IF "chip_present" \in features.present THEN TRUE
            ELSE {"uv_features_present", "ir_features_present"} \subseteq features.present
    IN has_min_level1 /\ has_min_level2 /\ has_basic_features /\ has_electronic_features

\* The six features validate_security_features reports when missing, in
\* source order (mrtd.rs 333-373).
MrtdCheckedFeatures ==
    << <<"hologram_present", "Hologram not detected">>,
       <<"microprinting_present", "Microprinting not detected">>,
       <<"uv_features_present", "UV features not detected">>,
       <<"ir_features_present", "IR features not detected">>,
       <<"watermark_present", "Watermark not detected">>,
       <<"security_thread_present", "Security thread not detected">> >>

RECURSIVE MissingFeatureIssues(_, _)
MissingFeatureIssues(present, i) ==
    IF i > Len(MrtdCheckedFeatures) THEN <<>>
    ELSE IssueIf(MrtdCheckedFeatures[i][1] \notin present,
                 ValidationIssue("Security", MrtdCheckedFeatures[i][2]))
         \o MissingFeatureIssues(present, i + 1)

\* MRTDVerifier::validate_security_features (mrtd.rs 321-432).
Mrtd_validate_security_features(features, document_format) ==
    LET issues ==
            MissingFeatureIssues(features.present, 1)
            \o IssueIf("chip_present" \notin features.present /\ document_format = "TD3",
                       ValidationIssue("Security", "Chip not detected in eMRTD"))
            \o IssueIf(features.level_1_features = <<>>,
                       ValidationIssue("Security", "No Level 1 security features detected"))
            \o IssueIf(features.level_2_features = <<>>,
                       ValidationIssue("Security", "No Level 2 security features detected"))
    IN [is_valid |-> Processor_validate_security_features(features, document_format)
                     /\ issues = <<>>,
        issues |-> issues]

RECURSIVE LineLengthIssues(_, _, _)
\* One issue for each raw line, from line i on, whose length is not the expected one.
LineLengthIssues(lines, expected_chars, i) ==
    IF i > Len(lines) THEN <<>>
    ELSE IssueIf(Len(lines[i]) # expected_chars,
                 ValidationIssue("Format", "Expected characters in MRZ line"))
         \o LineLengthIssues(lines, expected_chars, i + 1)

\* MRTDVerifier::validate_format (mrtd.rs 435-496).
Mrtd_validate_format(m) ==
    LET issues ==
            IssueIf(ExpectedMrzLines(m.document_format) # Len(m.raw_mrz_lines),
                    ValidationIssue("Format", "Expected MRZ lines"))
            \o LineLengthIssues(m.raw_mrz_lines, ExpectedMrzChars(m.document_format), 1)
            \o IssueIf(m.document_type \notin valid_doc_types(m.document_format),
                       ValidationIssue("Format", "Invalid document type"))
    IN [is_valid |-> issues = <<>>, correct_format |-> issues = <<>>, issues |-> issues]

\* The data groups validate_biometric_quality requires (biometric.rs 200-203).
required_dgs(document_format) ==
    IF document_format = "TD3" THEN <<"DG1", "DG2", "EF.COM", "EF.SOD">>
    ELSE <<"DG1", "EF.COM", "EF.SOD">>

RECURSIVE MissingDataGroups(_, _, _)
MissingDataGroups(required, present, i) ==
    IF i > Len(required) THEN <<>>
    ELSE (IF required[i] \in Range(present)
          THEN <<>> ELSE <<"Missing required data group " \o required[i]>>)
         \o MissingDataGroups(required, present, i + 1)

\* The scores validate_biometric_quality records, in hundredths: one for
\* each kind of data present (biometric.rs 164, 176, 190, 219).
QualityScores(data) ==
    (IF data.face_image THEN <<90>> ELSE <<>>)
    \o (IF is_some(data.fingerprint_data) THEN <<85>> ELSE <<>>)
    \o (IF is_some(data.iris_data) THEN <<92>> ELSE <<>>)
    \o (IF is_some(data.chip_data) THEN <<95>> ELSE <<>>)

RECURSIVE SumOf(_)
SumOf(scores) == IF scores = <<>> THEN 0 ELSE Head(scores) + SumOf(Tail(scores))

\* BiometricProcessor::validate_biometric_quality (biometric.rs 144-241):
\* the messages and meets_icao_standards (no message and a mean score of at
\* least 0.8; the mean of no score is 0.0).
validate_biometric_quality(data, document_format) ==
    LET issues ==
            (IF ~data.face_image /\ document_format = "TD3"
             THEN <<"Missing required face image for passport">> ELSE <<>>)
            \o (IF /\ is_some(data.fingerprint_data)
                   /\ Unwrap(data.fingerprint_data) < 2 /\ document_format = "TD3"
                THEN <<"Insufficient fingerprint samples for passport">> ELSE <<>>)
            \o (IF is_some(data.iris_data) /\ Unwrap(data.iris_data) = 0
                THEN <<"Empty iris image collection">> ELSE <<>>)
            \o (IF is_some(data.chip_data)
                THEN MissingDataGroups(required_dgs(document_format),
                                       Unwrap(data.chip_data).data_groups_present, 1)
                     \o (IF ~Unwrap(data.chip_data).authentication_success
                         THEN <<"Chip authentication failed">> ELSE <<>>)
                ELSE IF document_format = "TD3"
                THEN <<"Missing required chip for electronic passport">> ELSE <<>>)
        scores == QualityScores(data)
    IN [issues |-> issues,
        meets_icao_standards |->
            /\ issues = <<>>
            /\ scores # <<>>
            /\ SumOf(scores) * 10 >= 8 * 100 * Len(scores)]

\* The messages of a quality result as biometric issues (mrtd.rs 511-518).
BiometricIssues(messages) ==
    [i \in 1..Len(messages) |-> ValidationIssue("Biometric", messages[i])]

\* MRTDVerifier::validate_biometrics without a live capture (mrtd.rs 499-636).
Mrtd_validate_biometrics(data, document_format) ==
    LET quality_result == validate_biometric_quality(data, document_format)
        face_matches == TRUE
        chip == IF is_some(data.chip_data) THEN Unwrap(data.chip_data)
                ELSE [authentication_success |-> document_format # "TD3",
                      basic_access_control |-> TRUE,
                      extended_access_control |-> TRUE,
                      pace_authentication |-> TRUE,
                      active_authentication |-> TRUE]
        issues ==
            (IF ~quality_result.meets_icao_standards
             THEN BiometricIssues(quality_result.issues) ELSE <<>>)
            \o IssueIf(is_none(data.chip_data) /\ document_format = "TD3",
                       ValidationIssue("Biometric", "No chip data available for eMRTD"))
    IN [is_valid |-> /\ face_matches
                     /\ chip.authentication_success
                     /\ chip.basic_access_control
                     /\ (chip.extended_access_control \/ document_format # "TD3")
                     /\ (chip.pace_authentication \/ document_format # "TD3")
                     /\ (chip.active_authentication \/ document_format # "TD3"),
        chip_authentic |-> chip.authentication_success,
        issues |-> issues]

\* MRTDVerifier::validate_against_database (mrtd.rs 639-678): placeholders.
Mrtd_validate_against_database(m) ==
    [is_valid |-> TRUE, in_database |-> TRUE, issues |-> <<>>]

\* The date validate_expiry compares with (mrtd.rs 720-722).
current_date == <<2025, 4, 26>>

\* MRTDVerifier::validate_expiry (mrtd.rs 681-741).
Mrtd_validate_expiry(m) ==
    LET exp_parts == split_whitespace(m.date_of_expiry)
        day == ParseOr0(exp_parts[1])
        month == ParseOr0(exp_parts[2])
        year == ParseOr0(exp_parts[3])
        not_expired ==
            \/ year > current_date[1]
            \/ year = current_date[1] /\ month > current_date[2]
            \/ year = current_date[1] /\ month = current_date[2] /\ day >= current_date[3]
    IN IF Len(exp_parts) # 3
       THEN [is_valid |-> FALSE, not_expired |-> FALSE,
             issues |-> <<ValidationIssue("Expiry", "Invalid expiry date format")>>]
       ELSE IF day < 1 \/ day > 31 \/ month < 1 \/ month > 12 \/ year < 2000
       THEN [is_valid |-> FALSE, not_expired |-> FALSE,
             issues |-> <<ValidationIssue("Expiry", "Invalid expiry date components")>>]
       ELSE [is_valid |-> not_expired, not_expired |-> not_expired,
             issues |-> IssueIf(~not_expired,
                                ValidationIssue("Expiry", "Document is expired"))]

\* MRTDVerifier::validate_pki (mrtd.rs 744-836) over the placeholder
\* PKIProcessor::validate_certificate_chain (processing/pki.rs 40-123), which
\* reports a valid, not revoked chain for every document.
Mrtd_validate_pki(data, m) ==
    IF is_none(data.chip_data)
    THEN [is_valid |-> FALSE,
          issues |-> <<ValidationIssue("PKI", "No chip data available for PKI validation")>>]
    ELSE [is_valid |-> TRUE, issues |-> <<>>]

MrtdSubValidations == SubValidations \cup {"pki_validation"}

\* MRTDVerifier::verify (mrtd.rs 42-109).
verify(m, security_features, biometric_data) ==
    LET mrz_validation == Mrtd_validate_mrz(m)
        security_validation == Mrtd_validate_security_features(security_features, m.document_format)
        format_validation == Mrtd_validate_format(m)
        biometric_validation == Mrtd_validate_biometrics(biometric_data, m.document_format)
        database_validation == Mrtd_validate_against_database(m)
        expiry_validation == Mrtd_validate_expiry(m)
        pki_validation == Mrtd_validate_pki(biometric_data, m)
    IN [is_valid |-> /\ mrz_validation.is_valid /\ security_validation.is_valid
                     /\ format_validation.is_valid /\ biometric_validation.is_valid
                     /\ database_validation.is_valid /\ expiry_validation.is_valid
                     /\ pki_validation.is_valid,
        mrz_validation |-> mrz_validation,
        security_validation |-> security_validation,
        format_validation |-> format_validation,
        biometric_validation |-> biometric_validation,
        database_validation |-> database_validation,
        expiry_validation |-> expiry_validation,
        pki_validation |-> pki_validation,
        issues |-> mrz_validation.issues \o security_validation.issues
                   \o format_validation.issues \o biometric_validation.issues
                   \o database_validation.issues \o expiry_validation.issues
                   \o pki_validation.issues]


--------------------------------------------------------------------------
(* Specification of the verification: MRTDVerifier::verify on a decoded MRZ *)
(* record, the detected security features and the biometric data.           *)

\* A raw MRZ line of n characters.
RawLine(n) == [i \in 1..n |-> "<"]

VerifyRawLines ==
    {<<RawLine(44), RawLine(44)>>, <<RawLine(30), RawLine(30), RawLine(30)>>,
     <<RawLine(44), RawLine(44), RawLine(44)>>, <<RawLine(44)>>}

VerifyExpiryDates ==
    {<<"1", "5", " ", "0", "4", " ", "2", "0", "3", "0">>,
     <<"1", "5", " ", "0", "4", " ", "2", "0", "1", "2">>,
     <<"1", "2", "0", "4", "1", "5">>}

\* The MRZ record m with its raw lines.
WithRawLines(m, lines) ==
    [f \in DOMAIN m \cup {"raw_mrz_lines"} |->
        IF f = "raw_mrz_lines" THEN lines ELSE m[f]]

VerifyMrzBase == WithCheckDigits(ValidateMrzFields, "6", "2", "9", "1", "0")

VerifyMrzInputs ==
    {WithRawLines([VerifyMrzBase EXCEPT !.document_format = format,
                                        !.document_type = type,
                                        !.date_of_expiry = expiry], lines) :
         format \in {"TD3", "TD1", "None"}, type \in {<<"P">>, <<"I", "D">>},
         expiry \in VerifyExpiryDates, lines \in VerifyRawLines}

PresentFeatures ==
    {"hologram_present", "microprinting_present", "uv_features_present",
     "ir_features_present", "watermark_present", "security_thread_present",
     "chip_present"}

Level1Features == <<"hologram", "watermark", "optically variable ink", "guilloche", "rainbow printing">>

Level2Features == <<"uv fluorescence", "microprinting", "ir absorption">>

VerifySecurityInputs ==
    [present : {PresentFeatures, PresentFeatures \ {"chip_present"},
                PresentFeatures \ {"chip_present", "watermark_present"}},
     level_1_features : {Level1Features, SubSeq(Level1Features, 1, 3), <<>>},
     level_2_features : {Level2Features}]

GoodChip ==
    [data_groups_present |-> <<"EF.COM", "EF.SOD", "DG1", "DG2">>,
     authentication_success |-> TRUE, basic_access_control |-> TRUE,
     extended_access_control |-> TRUE, pace_authentication |-> TRUE,
     active_authentication |-> TRUE]

VerifyChips ==
    {None, Some(GoodChip),
     Some([GoodChip EXCEPT !.data_groups_present = <<"EF.COM", "EF.SOD", "DG1">>]),
     Some([GoodChip EXCEPT !.basic_access_control = FALSE]),
     Some([GoodChip EXCEPT !.authentication_success = FALSE])}

VerifyBiometricInputs ==
    [face_image : BOOLEAN, fingerprint_data : {None, Some(1)}, iris_data : {None},
     chip_data : VerifyChips]

InitVerify ==
    /\ pc = "document"
    /\ mrz \in VerifyMrzInputs
    /\ env \in [security_features : VerifySecurityInputs,
                biometric_data : VerifyBiometricInputs]
    /\ text = Unused
    /\ visual = Unused
    /\ corrected = Unused
    /\ recorrected = Unused
    /\ outcome = Unused

Verify ==
    /\ pc = "document"
    /\ outcome' = verify(mrz, env.security_features, env.biometric_data)
    /\ pc' = "verified"
    /\ UNCHANGED <<text, mrz, visual, env, corrected, recorrected>>

NextVerify == Verify

SpecVerify == InitVerify /\ [][NextVerify]_vars

\* The issue lists of the seven validations of verify, one after the other.
ConcatVerifyIssues(r) == ConcatIssues(r) \o r.pki_validation.issues

\* C30: in every result of MRTDVerifier.verify the overall is_valid is the
\* conjunction of the validations' is_valid, the issue list is the
\* concatenation of their issue lists, and is_valid is true exactly when the
\* combined issue list is empty.
C30_VerifyValidIffNoIssue ==
    pc = "verified" =>
        /\ outcome.is_valid = (\A s \in MrtdSubValidations : outcome[s].is_valid)
        /\ outcome.issues = ConcatVerifyIssues(outcome)
        /\ outcome.is_valid = (outcome.issues = <<>>)

\* C30: in every result of MRTDVerifier.verify the overall is_valid is the
\* conjunction of the validations' is_valid and the issue list is the
\* concatenation of their issue lists.
C30_VerifyConjunctionAndConcatenation ==
    pc = "verified" =>
        /\ outcome.is_valid = (\A s \in MrtdSubValidations : outcome[s].is_valid)
        /\ outcome.issues = ConcatVerifyIssues(outcome)

==========================================================================
